---- MODULE Spec2Model ----
(***************************************************************************)
(* Row-widget lifecycle and polling model of the Dusky Control Center.     *)
(*                                                                         *)
(* One row widget is modelled together with the process-wide executor,     *)
(* the GLib main context (timers and the idle queue) and the worker        *)
(* threads of the pool.  Every UI-thread callback is one action (GLib      *)
(* runs them serialized on the main thread); a background task is split    *)
(* at its lock regions, so worker steps interleave freely with UI          *)
(* callbacks and with each other.                                          *)
(***************************************************************************)
EXTENDS Integers, Sequences, FiniteSets, TLC

\* ------------------------------------------------------------------ bounds
MaxFetches == 2      \* accepted submissions to the pool per run
MaxEvents == 3       \* raw slider value-changed events per run
MaxToggles == 1      \* user toggles / card clicks per run

\* ------------------------------------------------------- program constants
EXECUTOR_MAX_WORKERS == 4

None == "None"
DEFAULT_ICON == "utilities-terminal-symbolic"
LABEL_PLACEHOLDER == "..."
LABEL_NA == "N/A"
LABEL_TIMEOUT == "Timeout"

\* Row kinds.  ButtonRow stands for every kind whose only polling loop is the
\* dynamic icon (ButtonRow, NavigationRow, SelectionRow, EntryRow, ExpanderRow,
\* GridCard): they share DynamicIconMixin and the same cleanup body.
RowKinds == {"ButtonRow", "ToggleRow", "GridToggleCard", "LabelRow", "SliderRow"}
ToggleKinds == {"ToggleRow", "GridToggleCard"}

\* Fetch kinds and the in-flight flag / timer field of each.
FetchKinds == {"icon", "monitor", "value"}

VARIABLES
    kind,          \* "none" before the row is built, then its class
    cfg,           \* the row's properties that the code branches on
    state,         \* WidgetState (without the lock)
    mapped,        \* Gtk.Widget.get_mapped()
    icon_name,     \* icon_widget.get_icon_name()
    active,        \* toggle_switch.get_active() / GridToggleCard.is_active
    label,         \* value_label.get_label()
    pool,          \* _ExecutorManager: _executor, _is_shutdown
    tasks,         \* work items accepted by the executor and not yet returned
    nsub,          \* number of accepted submissions so far (next item's id - 1)
    idle,          \* GLib idle sources, in attachment order
    timers,        \* GLib timeout sources that are attached
    next_source,   \* last source id handed out by GLib
    last_sources,  \* what the last mark_destroyed_and_get_sources returned
    discarded,     \* an idle callback found the widget destroyed
    last_applied,  \* per fetch kind, the id of the fetch whose result was applied last
    setting,       \* text of the settings file of the row's key ("absent": no file)
    toggle_cmds,   \* number of 'enabled'/'disabled' commands executed so far
    polled_flip,   \* a monitor result has changed the switch / card state
    ui_blocked,    \* the UI thread waits for a lock that is never released
    slider,        \* SliderRow: the scale's value and the _slider_* fields
    events,        \* number of value-changed events raised by the user so far
    last_raw,      \* the raw value of the last such event (<<>>: none yet)
    burst_execs,   \* slider commands executed since the current burst began
    last_exec,     \* argument of the last slider command (<<>>: none yet)
    last_cmd,      \* which toggle action's command ran last (None: none yet)
    state_lock,    \* WidgetState.lock is held by some thread
    call_in_lock,  \* a submit or a command was begun by a thread holding it
    config,        \* ApplicationState.config["pages"]
    search_timer,  \* the pending search timeouts of the main loop: id and query
    debounce_source_id, \* ApplicationState.debounce_source_id
    results,       \* the rows of the search results group
    last_query,    \* the query of the last search that ran (<<>>: none, or reset)
    looked,        \* items the last search examined before its loop ended
    searches,      \* number of search-changed signals so far
    disk,          \* the config file and the stylesheet as they are on disk
    css_content,   \* ApplicationState.css_content
    config_error,  \* ApplicationState.config_error
    window,        \* the window exists (do_activate has built it)
    view,          \* what the content stack holds: error page, empty page or pages
    pages_built,   \* per sidebar row / stack page: its title and its groups of rows
    selected,      \* index of the selected sidebar row (-1: none)
    toasts,        \* the toasts the last handler on the UI thread added to the overlay
    reloads,       \* hot reloads that were started and have not completed
    nreloads,      \* number of hot reloads started so far
    completed,     \* per reload started, the number of on_complete calls so far
    crashed,       \* an exception left a handler of the UI thread
    build_input,   \* the section or item list handed to a builder
    build_output,  \* which builder ran last and what it returned
    launch_failed, \* a user action's command failed to launch
    visible,       \* the window is shown (window.get_visible())
    activations    \* number of do_activate calls so far

vars == <<kind, cfg, state, mapped, icon_name, active, label, pool, tasks, nsub,
          idle, timers, next_source, last_sources,
          discarded, last_applied, setting, toggle_cmds, polled_flip, ui_blocked,
          slider, events, last_raw, burst_execs, last_exec, last_cmd,
          state_lock, call_in_lock,
          config, search_timer, debounce_source_id, results, last_query,
          looked, searches,
          disk, css_content, config_error, window, view, pages_built,
          selected, toasts, reloads, nreloads, completed, crashed,
          build_input, build_output, launch_failed, visible, activations>>

appVars == <<disk, css_content, config_error, window, view, pages_built,
             selected, toasts, reloads, nreloads, completed, crashed,
             visible, activations>>

buildVars == <<build_input, build_output>>

searchVars == <<config, search_timer, debounce_source_id, results, last_query,
                looked, searches>>

lockVars == <<state_lock, call_in_lock>>

sliderVars == <<slider, events, last_raw, burst_execs, last_exec>>

\* The search part of the window before any page is loaded and before the
\* search entry is used.
NoSearch ==
    /\ config = <<>>
    /\ search_timer = {}
    /\ debounce_source_id = 0
    /\ results = <<>>
    /\ last_query = <<>>
    /\ looked = 0
    /\ searches = 0

\* The application before do_activate, no builder called on its own, no user
\* action yet.
NoApp ==
    /\ disk = <<>>
    /\ css_content = ""
    /\ config_error = None
    /\ window = FALSE
    /\ view = "none"
    /\ pages_built = <<>>
    /\ selected = -1
    /\ toasts = <<>>
    /\ reloads = {}
    /\ nreloads = 0
    /\ completed = <<>>
    /\ crashed = FALSE
    /\ visible = FALSE
    /\ activations = 0

NoBuild ==
    /\ build_input = <<>>
    /\ build_output = <<>>

\* ------------------------------------------------------------ WidgetState
WidgetState ==
    [is_destroyed |-> FALSE,
     icon_source_id |-> 0, monitor_source_id |-> 0,
     update_source_id |-> 0, debounce_source_id |-> 0,
     is_icon_updating |-> FALSE, is_monitoring |-> FALSE,
     is_value_updating |-> FALSE]

\* The tuple mark_destroyed_and_get_sources returns.
DrainedSources(s) ==
    <<s.icon_source_id, s.monitor_source_id, s.update_source_id, s.debounce_source_id>>

\* Variant of the drain that forgets the monitor timer: is_destroyed is set
\* but monitor_source_id keeps its value and is not handed to the caller.
MarkDestroyedKeepsMonitor(s) ==
    [s EXCEPT !.is_destroyed = TRUE, !.icon_source_id = 0,
              !.update_source_id = 0, !.debounce_source_id = 0]

\* Variant of the drain that flips is_destroyed instead of setting it.
MarkDestroyedFlips(s) ==
    [s EXCEPT !.is_destroyed = ~s.is_destroyed, !.icon_source_id = 0,
              !.monitor_source_id = 0, !.update_source_id = 0,
              !.debounce_source_id = 0]

\* The record after mark_destroyed_and_get_sources (one critical section).
MarkDestroyed(s) ==
    [s EXCEPT !.is_destroyed = TRUE,
              !.icon_source_id = 0, !.monitor_source_id = 0,
              !.update_source_id = 0, !.debounce_source_id = 0]

FlagOf(k) ==
    CASE k = "icon" -> "is_icon_updating"
      [] k = "monitor" -> "is_monitoring"
      [] k = "value" -> "is_value_updating"

\* ------------------------------------------------------- _ExecutorManager
\* _executor is 0 for None and 1 for a ThreadPoolExecutor.
ExecutorManager == [executor |-> 0, is_shutdown |-> FALSE]

\* get(): a fresh ThreadPoolExecutor when there is none or after shutdown().
ExecutorGet(p) ==
    IF p.executor = 0 \/ p.is_shutdown
    THEN [executor |-> 1, is_shutdown |-> FALSE]
    ELSE p

\* shutdown(): only acts on a live executor.
ExecutorShutdown(p) ==
    IF p.executor # 0 /\ ~p.is_shutdown
    THEN [p EXCEPT !.is_shutdown = TRUE, !.executor = 0]
    ELSE p

\* _submit_task_safe: _get_executor().submit(func) inside try/except.  raises
\* is the environment's part: ThreadPoolExecutor.submit raising RuntimeError
\* (interpreter finalizing, no thread can be started).  The result is the new
\* manager, work items and counter, and the boolean the function returns.
SubmitTaskSafe(p, ts, n, k, raises) ==
    LET p2 == ExecutorGet(p) IN
    IF raises
    THEN [pool |-> p2, tasks |-> ts, nsub |-> n, accepted |-> FALSE]
    ELSE [pool |-> p2,
          tasks |-> ts \cup {[id |-> n + 1, kind |-> k, phase |-> "queued",
                              res |-> None]},
          nsub |-> n + 1, accepted |-> TRUE]

\* ------------------------------------------------------------------ GLib
\* GLib.timeout_add / timeout_add_seconds: attach a source, return its id.
TimeoutAdd(ts, n, cb) == ts \cup {[id |-> n + 1, cb |-> cb]}

\* Variant of the removal that detaches nothing.
SourceRemoveKeepsAll(ts, ids) == ts

\* _safe_source_remove / _batch_source_remove: ids <= 0 are skipped.
SourceRemove(ts, ids) == {t \in ts : ~(t.id > 0 /\ t.id \in ids)}

Range(f) == {f[i] : i \in DOMAIN f}

\* -------------------------------------------------------------- settings
\* str.lower() on the texts a settings file holds here.
Lower(text) ==
    CASE text = "True" -> "true"
      [] text = "False" -> "false"
      [] OTHER -> text

\* Text save_setting writes for a bool: str(int(value)) or str(value).
SaveSetting(value, as_int) ==
    IF as_int THEN (IF value THEN "1" ELSE "0")
    ELSE (IF value THEN "True" ELSE "False")

\* Variant of load_setting that compares the text with "true" as it stands,
\* without lower().
LoadSettingCaseSensitive(text, is_inversed) ==
    IF text = "absent" THEN FALSE
    ELSE IF text \in {"0", "1"} THEN (text # "0") # is_inversed
    ELSE (text = "true") # is_inversed

\* load_setting(key, default=False, is_inversed): no file gives the default as
\* it is; digits go through int(), anything else is compared with "true".
LoadSetting(text, is_inversed) ==
    IF text = "absent" THEN FALSE
    ELSE IF text \in {"0", "1"} THEN (text # "0") # is_inversed
    ELSE (Lower(text) = "true") # is_inversed

OnOff(b) == IF b THEN "on" ELSE "off"

\* ---------------------------------------------------------- configuration
IconNames == {"icon-a"}
LabelTexts == {"text-a", LABEL_NA, LABEL_TIMEOUT}
ExternalTexts == {"true", "false"}

\* Properties the code branches on.  dyn_icon: _is_dynamic_icon(icon);
\* key / state_cmd: a non-empty 'key' / 'state_command'; the toggle actions
\* 'enabled' and 'disabled' both carry a command.
ToggleConfig(icon, key, cmd, inv, as_int) ==
    [dyn_icon |-> icon, key |-> key, state_cmd |-> cmd, key_inverse |-> inv,
     save_as_int |-> as_int]

\* The toggle configurations explored: polling the key (plain, and inverted
\* and saved as an int), polling a state command, and a state command beside
\* a dynamic icon.
ToggleConfigs(k) ==
    IF k = "ToggleRow"
    THEN {ToggleConfig(FALSE, TRUE, FALSE, FALSE, FALSE),
          ToggleConfig(FALSE, TRUE, FALSE, TRUE, TRUE),
          ToggleConfig(TRUE, FALSE, TRUE, FALSE, FALSE)}
    ELSE {ToggleConfig(FALSE, TRUE, FALSE, FALSE, TRUE),
          ToggleConfig(FALSE, FALSE, TRUE, FALSE, FALSE)}

\* Slider values are counted in units of 1/Scale, so that a step of 0.5 and
\* the int() of the command argument are exact.
Scale == 2

SliderConfig(lo, hi, step, debounce) ==
    [dyn_icon |-> FALSE, min |-> lo, max |-> hi, step |-> step, debounce |-> debounce]

\* min 0, max 2, step 1 and min 0.5, max 1.5, step 0.5, each with and
\* without debouncing.
SliderConfigs ==
    {SliderConfig(0, 4, 2, d) : d \in BOOLEAN} \cup
    {SliderConfig(1, 3, 1, d) : d \in BOOLEAN}

Configs(k) ==
    CASE k \in ToggleKinds -> ToggleConfigs(k)
      [] k = "SliderRow" -> SliderConfigs
      [] OTHER -> [dyn_icon : BOOLEAN]

\* The part of the program state the row helpers thread through.
World == [state |-> state, pool |-> pool, tasks |-> tasks, nsub |-> nsub,
          timers |-> timers, next_source |-> next_source,
          lock |-> state_lock, call_in_lock |-> call_in_lock]

\* Entering and leaving a `with self._state.lock:` block.
Locked(w) == [w EXCEPT !.lock = TRUE]
Unlocked(w) == [w EXCEPT !.lock = FALSE]

\* The running thread begins a call that can block: executor.submit, a
\* subprocess or a file read.  call_in_lock records whether it holds the lock.
BlockingCall(w) == [w EXCEPT !.call_in_lock = @ \/ w.lock]

\* Variant of _schedule_icon_fetch that submits inside the with block.
ScheduleIconFetchUnderLock(w, raises) ==
    LET g == Locked(w) IN
    IF w.state.is_destroyed THEN Unlocked(g)
    ELSE LET c == BlockingCall(g)
             r == SubmitTaskSafe(c.pool, c.tasks, c.nsub, "icon", raises) IN
         Unlocked([c EXCEPT !.pool = r.pool, !.tasks = r.tasks, !.nsub = r.nsub,
                   !.state.is_icon_updating = IF r.accepted THEN @ ELSE FALSE])

\* DynamicIconMixin._schedule_icon_fetch
ScheduleIconFetch(w, raises) ==
    LET g == Unlocked(Locked(w)) IN
    IF w.state.is_destroyed THEN g
    ELSE LET c == BlockingCall(g)
             r == SubmitTaskSafe(c.pool, c.tasks, c.nsub, "icon", raises) IN
         [c EXCEPT !.pool = r.pool, !.tasks = r.tasks, !.nsub = r.nsub,
                   !.state.is_icon_updating = IF r.accepted THEN @ ELSE FALSE]

\* DynamicIconMixin._start_icon_update_loop: a first fetch, then the timer.
StartIconUpdateLoop(w, raises) ==
    LET w1 == ScheduleIconFetch(w, raises) IN
    IF w1.state.is_destroyed THEN w1
    ELSE [w1 EXCEPT !.state.icon_source_id = w1.next_source + 1,
                    !.timers = TimeoutAdd(w1.timers, w1.next_source, "icon"),
                    !.next_source = @ + 1]

\* DynamicIconMixin._icon_update_tick, for a mapped widget whose timer fired.
IconUpdateTick(w, raises) ==
    IF w.state.is_destroyed
    THEN [w EXCEPT !.timers = {t \in @ : t.cb # "icon"}]
    ELSE IF w.state.is_icon_updating THEN w
    ELSE ScheduleIconFetch([w EXCEPT !.state.is_icon_updating = TRUE], raises)

\* StateMonitorMixin._start_state_monitor
StartStateMonitor(w, c) ==
    IF ~c.key /\ ~c.state_cmd THEN w
    ELSE IF w.state.is_destroyed THEN w
    ELSE [w EXCEPT !.state.monitor_source_id = w.next_source + 1,
                   !.timers = TimeoutAdd(w.timers, w.next_source, "monitor"),
                   !.next_source = @ + 1]

\* Variant of the monitor tick that leaves is_monitoring set when the
\* submission was refused.
MonitorStateTickKeepsFlag(w, raises) ==
    IF w.state.is_destroyed
    THEN [w EXCEPT !.timers = {t \in @ : t.cb # "monitor"}]
    ELSE IF w.state.is_monitoring THEN w
    ELSE LET c == BlockingCall(Unlocked(Locked(w)))
             r == SubmitTaskSafe(c.pool, c.tasks, c.nsub, "monitor", raises) IN
         [c EXCEPT !.pool = r.pool, !.tasks = r.tasks, !.nsub = r.nsub,
                   !.state.is_monitoring = TRUE]

\* StateMonitorMixin._monitor_state_tick, for a mapped widget.
MonitorStateTick(w, raises) ==
    IF w.state.is_destroyed
    THEN [w EXCEPT !.timers = {t \in @ : t.cb # "monitor"}]
    ELSE IF w.state.is_monitoring THEN w
    ELSE LET c == BlockingCall(Unlocked(Locked(w)))
             r == SubmitTaskSafe(c.pool, c.tasks, c.nsub, "monitor", raises) IN
         [c EXCEPT !.pool = r.pool, !.tasks = r.tasks, !.nsub = r.nsub,
                   !.state.is_monitoring = r.accepted]

\* LabelRow._trigger_update
TriggerUpdate(w, raises) ==
    IF w.state.is_value_updating \/ w.state.is_destroyed THEN w
    ELSE LET c == BlockingCall(Unlocked(Locked(w)))
             r == SubmitTaskSafe(c.pool, c.tasks, c.nsub, "value", raises) IN
         [c EXCEPT !.pool = r.pool, !.tasks = r.tasks, !.nsub = r.nsub,
                   !.state.is_value_updating = r.accepted]

\* LabelRow._on_timeout, for a mapped widget.
OnTimeout(w, raises) ==
    IF w.state.is_destroyed
    THEN [w EXCEPT !.timers = {t \in @ : t.cb # "update"}]
    ELSE TriggerUpdate(w, raises)

\* The timer started at the end of LabelRow.__init__.
StartValueTimer(w) ==
    IF w.state.is_destroyed THEN w
    ELSE [w EXCEPT !.state.update_source_id = w.next_source + 1,
                   !.timers = TimeoutAdd(w.timers, w.next_source, "update"),
                   !.next_source = @ + 1]

\* __init__ of each row class, from BaseActionRow.__init__ on.
BuildRow(w, k, c, r1, r2) ==
    LET base == IF c.dyn_icon THEN StartIconUpdateLoop(w, r1) ELSE w IN
    CASE k = "ToggleRow" -> StartStateMonitor(base, c)
      [] k = "GridToggleCard" ->
            LET m == StartStateMonitor(w, c) IN
            IF c.dyn_icon THEN StartIconUpdateLoop(m, r1) ELSE m
      [] k = "LabelRow" -> StartValueTimer(TriggerUpdate(base, r2))
      [] OTHER -> base

SetWorld(w) ==
    /\ state' = w.state
    /\ pool' = w.pool
    /\ tasks' = w.tasks
    /\ nsub' = w.nsub
    /\ timers' = w.timers
    /\ next_source' = w.next_source
    /\ state_lock' = w.lock
    /\ call_in_lock' = w.call_in_lock

\* Variant of the toggle handler without the programmatic-update check.
OnToggleChangedUnguarded(programmatic, st, c, text, cmds) ==
    [setting |-> IF c.key THEN SaveSetting(st # c.key_inverse, c.save_as_int)
                 ELSE text,
     toggle_cmds |-> cmds + 1,
     cmd |-> IF st THEN "enabled" ELSE "disabled"]

\* Variant of the toggle handler that persists the state as it is, without
\* key_inverse.
OnToggleChangedPlainSave(programmatic, st, c, text, cmds) ==
    IF programmatic
    THEN [setting |-> text, toggle_cmds |-> cmds, cmd |-> None]
    ELSE [setting |-> IF c.key THEN SaveSetting(st, c.save_as_int) ELSE text,
          toggle_cmds |-> cmds + 1,
          cmd |-> IF st THEN "enabled" ELSE "disabled"]

\* ToggleRow._on_toggle_changed(state) / the body of GridToggleCard._on_clicked
\* after _set_visual: run the action's command, persist state ^ key_inverse.
\* programmatic is _programmatic_update_event.is_set().
OnToggleChanged(programmatic, st, c, text, cmds) ==
    IF programmatic
    THEN [setting |-> text, toggle_cmds |-> cmds, cmd |-> None]
    ELSE [setting |-> IF c.key THEN SaveSetting(st # c.key_inverse, c.save_as_int)
                      ELSE text,
          toggle_cmds |-> cmds + 1,
          cmd |-> IF st THEN "enabled" ELSE "disabled"]

\* _apply_state_update of ToggleRow and of GridToggleCard on a live widget:
\* ToggleRow sets the event around set_active, which emits state-set
\* synchronously; GridToggleCard only calls _set_visual.
ApplyStateUpdate(k, new_state, c, text, cmds) ==
    IF k = "ToggleRow" /\ new_state # active
    THEN OnToggleChanged(TRUE, new_state, c, text, cmds)
    ELSE [setting |-> text, toggle_cmds |-> cmds, cmd |-> None]

\* Variant of the idle callbacks without the is_destroyed check.
ApplyGuardMissing(s) == TRUE

\* Whether an idle callback (_apply_icon_update, _apply_state_update,
\* _update_label) goes on to touch the widget.
ApplyGuard(s) == ~s.is_destroyed

InFlight(k) == {t \in tasks : t.kind = k}

\* The fetches of kind k that are submitted and have not yet reached the end
\* of their finally block.
Outstanding(k) == {t \in InFlight(k) : t.phase # "cleared"}

\* ---------------------------------------------------------------- actions
Init ==
    /\ kind = "none"
    /\ cfg = [dyn_icon |-> FALSE]
    /\ state = WidgetState
    /\ mapped = FALSE
    /\ icon_name = DEFAULT_ICON
    /\ active = FALSE
    /\ label = LABEL_PLACEHOLDER
    /\ pool = ExecutorManager
    /\ tasks = {}
    /\ nsub = 0
    /\ idle = <<>>
    /\ timers = {}
    /\ next_source = 0
    /\ last_sources = <<0, 0, 0, 0>>
    /\ discarded = FALSE
    /\ last_applied = [k \in FetchKinds |-> 0]
    /\ setting = "absent"
    /\ toggle_cmds = 0
    /\ polled_flip = FALSE
    /\ ui_blocked = FALSE
    /\ slider = [value |-> 0, changing |-> FALSE, last_snapped |-> <<>>,
                 pending |-> <<>>, lock |-> FALSE]
    /\ events = 0
    /\ last_raw = <<>>
    /\ burst_execs = 0
    /\ last_exec = <<>>
    /\ last_cmd = None
    /\ state_lock = FALSE
    /\ call_in_lock = FALSE
    /\ NoApp
    /\ NoBuild
    /\ launch_failed = FALSE
    /\ NoSearch

\* The row is built from its config item (UI thread).  text is what the
\* settings file of the row's key holds at that moment.
Construct ==
    /\ UNCHANGED last_cmd
    /\ UNCHANGED searchVars
    /\ UNCHANGED <<appVars, buildVars, launch_failed>>
    /\ kind = "none"
    /\ \E k \in RowKinds, r1, r2 \in BOOLEAN, text \in {"absent"} \cup ExternalTexts :
       \E c \in Configs(k) :
          LET uses_key == k \in ToggleKinds /\ c.key IN
          /\ kind' = k
          /\ cfg' = c
          /\ setting' = IF uses_key THEN text ELSE "absent"
          /\ active' = IF uses_key THEN LoadSetting(text, c.key_inverse) ELSE FALSE
          /\ slider' = IF k = "SliderRow" THEN [slider EXCEPT !.value = c.min]
                        ELSE slider
          /\ SetWorld(BuildRow(World, k, c, r1, r2))
    /\ UNCHANGED <<mapped, icon_name, label, idle, last_sources, discarded,
                   last_applied, toggle_cmds, polled_flip, ui_blocked, events,
                   last_raw, burst_execs, last_exec>>

\* The window is shown or hidden: the row becomes mapped or unmapped.
SetMapped ==
    /\ UNCHANGED last_cmd
    /\ UNCHANGED searchVars
    /\ UNCHANGED <<appVars, buildVars, launch_failed>>
    /\ UNCHANGED lockVars
    /\ kind # "none"
    /\ ~state.is_destroyed
    /\ mapped' = ~mapped
    /\ UNCHANGED <<kind, cfg, state, icon_name, active, label, pool, tasks, nsub,
                   idle, timers, next_source, last_sources, discarded, last_applied, setting, toggle_cmds, polled_flip,
                   ui_blocked,
                   slider, events, last_raw, burst_execs, last_exec>>

UnchangedByTick ==
    UNCHANGED <<kind, cfg, mapped, icon_name, active, label, idle, last_sources, discarded, last_applied, setting,
                toggle_cmds, polled_flip, ui_blocked,
                   slider, events, last_raw, burst_execs, last_exec>>

\* _icon_update_tick without the get_mapped() test.
IconTickIgnoresMapped ==
    /\ UNCHANGED last_cmd
    /\ UNCHANGED searchVars
    /\ UNCHANGED <<appVars, buildVars, launch_failed>>
    /\ ~ui_blocked
    /\ \E t \in timers : t.cb = "icon"
    /\ nsub < MaxFetches
    /\ \E raises \in BOOLEAN : SetWorld(IconUpdateTick(World, raises))
    /\ UnchangedByTick

\* A GLib timeout fires _icon_update_tick.
IconTick ==
    /\ UNCHANGED last_cmd
    /\ UNCHANGED searchVars
    /\ UNCHANGED <<appVars, buildVars, launch_failed>>
    /\ ~ui_blocked
    /\ \E t \in timers : t.cb = "icon"
    /\ nsub < MaxFetches
    /\ \E raises \in BOOLEAN :
          SetWorld(IF mapped THEN IconUpdateTick(World, raises) ELSE World)
    /\ UnchangedByTick

\* A GLib timeout fires _monitor_state_tick.
MonitorTick ==
    /\ UNCHANGED last_cmd
    /\ UNCHANGED searchVars
    /\ UNCHANGED <<appVars, buildVars, launch_failed>>
    /\ ~ui_blocked
    /\ \E t \in timers : t.cb = "monitor"
    /\ nsub < MaxFetches
    /\ \E raises \in BOOLEAN :
          SetWorld(IF mapped THEN MonitorStateTick(World, raises) ELSE World)
    /\ UnchangedByTick

\* A GLib timeout fires LabelRow._on_timeout.
ValueTick ==
    /\ UNCHANGED last_cmd
    /\ UNCHANGED searchVars
    /\ UNCHANGED <<appVars, buildVars, launch_failed>>
    /\ ~ui_blocked
    /\ \E t \in timers : t.cb = "update"
    /\ nsub < MaxFetches
    /\ \E raises \in BOOLEAN :
          SetWorld(IF mapped THEN OnTimeout(World, raises) ELSE World)
    /\ UnchangedByTick

\* do_unroot -> _perform_cleanup (the same body in every row class).
DoUnroot ==
    /\ UNCHANGED last_cmd
    /\ UNCHANGED searchVars
    /\ UNCHANGED <<appVars, buildVars, launch_failed>>
    /\ UNCHANGED lockVars
    /\ ~ui_blocked
    /\ kind # "none"
    /\ last_sources' = DrainedSources(state)
    /\ state' = MarkDestroyed(state)
    /\ timers' = SourceRemove(timers, Range(DrainedSources(state)))
    /\ mapped' = FALSE
    /\ UNCHANGED <<kind, cfg, icon_name, active, label, pool, tasks, nsub, idle,
                   next_source, discarded, last_applied, setting,
                   toggle_cmds, polled_flip, ui_blocked,
                   slider, events, last_raw, burst_execs, last_exec>>

\* _ExecutorManager.shutdown (the atexit hook): work items still in the queue
\* are cancelled, items a worker has taken are left to run.
Shutdown ==
    /\ UNCHANGED last_cmd
    /\ UNCHANGED searchVars
    /\ UNCHANGED <<appVars, buildVars, launch_failed>>
    /\ UNCHANGED lockVars
    /\ pool' = ExecutorShutdown(pool)
    /\ \E cancelled \in SUBSET {t \in tasks : t.phase = "queued"} :
          tasks' = IF pool.executor # 0 /\ ~pool.is_shutdown
                   THEN tasks \ cancelled ELSE tasks
    /\ UNCHANGED <<kind, cfg, state, mapped, icon_name, active, label, nsub, idle,
                   timers, next_source, last_sources, discarded,
                   last_applied, setting, toggle_cmds, polled_flip, ui_blocked,
                   slider, events, last_raw, burst_execs, last_exec>>

UnchangedByWorker ==
    UNCHANGED <<kind, cfg, mapped, icon_name, active, label, pool, nsub, timers,
                next_source, last_sources, discarded,
                last_applied, setting, toggle_cmds, polled_flip, ui_blocked,
                   slider, events, last_raw, burst_execs, last_exec>>

Replace(ts, t, t2) == (ts \ {t}) \cup {t2}

\* What a fetch that ran its command can come back with.  None: timeout,
\* subprocess error or empty output (icon), timeout or error (monitor).
Outcomes(k) ==
    CASE k = "icon" -> IconNames \cup {None}
      [] k = "monitor" ->
            IF cfg.state_cmd THEN {"on", "off", None}
            ELSE {OnOff(LoadSetting(setting, cfg.key_inverse))}
      [] k = "value" -> LabelTexts

\* A worker thread enters _fetch_icon_async / _check_state_async /
\* _load_value_async: the first critical section reads is_destroyed.
TaskStart ==
    /\ UNCHANGED last_cmd
    /\ UNCHANGED searchVars
    /\ UNCHANGED <<appVars, buildVars, launch_failed>>
    /\ \E t \in tasks :
          /\ t.phase = "queued"
          /\ Cardinality({u \in tasks : u.phase # "queued"}) < EXECUTOR_MAX_WORKERS
          /\ tasks' = Replace(tasks, t,
                [t EXCEPT !.phase = IF state.is_destroyed THEN "aborting" ELSE "running"])
    /\ LET g == Unlocked(Locked(World))
           c == IF state.is_destroyed THEN g ELSE BlockingCall(g)
       IN  state_lock' = c.lock /\ call_in_lock' = c.call_in_lock
    /\ UNCHANGED <<state, idle>>
    /\ UnchangedByWorker

\* Variant of the worker's end in which the early return of a destroyed widget
\* skips the finally block.
TaskFinishSkipsAborted ==
    /\ UNCHANGED last_cmd
    /\ UNCHANGED searchVars
    /\ UNCHANGED <<appVars, buildVars, launch_failed>>
    /\ UNCHANGED lockVars
    /\ \E t \in tasks :
          /\ t.phase \in {"running", "aborting"}
          /\ IF t.phase = "aborting"
             THEN tasks' = tasks \ {t} /\ state' = state
             ELSE /\ state' = [state EXCEPT ![FlagOf(t.kind)] = FALSE]
                  /\ \E r \in Outcomes(t.kind) :
                        tasks' = Replace(tasks, t, [t EXCEPT !.phase = "cleared", !.res = r])
    /\ UNCHANGED idle
    /\ UnchangedByWorker

\* The finally block: the in-flight flag of the task's kind is cleared, after
\* the command has run (running) or straight after the early return (aborting,
\* where the function then ends).
TaskFinish ==
    /\ UNCHANGED last_cmd
    /\ UNCHANGED searchVars
    /\ UNCHANGED <<appVars, buildVars, launch_failed>>
    /\ UNCHANGED lockVars
    /\ \E t \in tasks :
          /\ t.phase \in {"running", "aborting"}
          /\ state' = [state EXCEPT ![FlagOf(t.kind)] = FALSE]
          /\ IF t.phase = "aborting"
             THEN tasks' = tasks \ {t}
             ELSE \E r \in Outcomes(t.kind) :
                     tasks' = Replace(tasks, t, [t EXCEPT !.phase = "cleared", !.res = r])
    /\ UNCHANGED idle
    /\ UnchangedByWorker

\* After the finally block: GLib.idle_add of the apply callback when there is a
\* result, then the function returns.
TaskPost ==
    /\ UNCHANGED last_cmd
    /\ UNCHANGED searchVars
    /\ UNCHANGED <<appVars, buildVars, launch_failed>>
    /\ UNCHANGED lockVars
    /\ \E t \in tasks :
          /\ t.phase = "cleared"
          /\ tasks' = tasks \ {t}
          /\ idle' = IF t.res # None
                     THEN Append(idle, [id |-> t.id, kind |-> t.kind, res |-> t.res])
                     ELSE idle
    /\ UNCHANGED state
    /\ UnchangedByWorker

\* The main loop dispatches the oldest idle source: _apply_icon_update,
\* _apply_state_update or _update_label.
ApplyIdle ==
    /\ UNCHANGED lockVars
    /\ UNCHANGED searchVars
    /\ UNCHANGED <<appVars, buildVars, launch_failed>>
    /\ ~ui_blocked
    /\ idle # <<>>
    /\ idle' = Tail(idle)
    /\ LET h == Head(idle) IN
       IF ~ApplyGuard(state)
       THEN /\ discarded' = TRUE
            /\ UNCHANGED <<icon_name, active, label, last_applied, setting,
                           toggle_cmds, polled_flip, last_cmd>>
       ELSE /\ last_applied' = [last_applied EXCEPT ![h.kind] = h.id]
            /\ discarded' = discarded
            /\ icon_name' = IF h.kind = "icon" THEN h.res ELSE icon_name
            /\ label' = IF h.kind = "value" THEN h.res ELSE label
            /\ IF h.kind = "monitor"
               THEN LET new_state == (h.res = "on")
                        e == ApplyStateUpdate(kind, new_state, cfg, setting, toggle_cmds)
                    IN /\ active' = new_state
                       /\ polled_flip' = (polled_flip \/ new_state # active)
                       /\ setting' = e.setting
                       /\ toggle_cmds' = e.toggle_cmds
                       /\ last_cmd' = IF e.cmd = None THEN last_cmd ELSE e.cmd
               ELSE UNCHANGED <<active, polled_flip, setting, toggle_cmds, last_cmd>>
    /\ UNCHANGED <<kind, cfg, state, mapped, pool, tasks, nsub, timers, next_source,
                   last_sources, ui_blocked,
                   slider, events, last_raw, burst_execs, last_exec>>

\* The user flips the switch of a ToggleRow (state-set with the event clear)
\* or clicks a GridToggleCard.
UserToggle ==
    /\ UNCHANGED lockVars
    /\ UNCHANGED searchVars
    /\ UNCHANGED <<appVars, buildVars, launch_failed>>
    /\ ~ui_blocked
    /\ kind \in ToggleKinds
    /\ ~state.is_destroyed
    /\ mapped
    /\ toggle_cmds < MaxToggles
    /\ LET e == OnToggleChanged(FALSE, ~active, cfg, setting, toggle_cmds) IN
       /\ active' = ~active
       /\ setting' = e.setting
       /\ toggle_cmds' = e.toggle_cmds
       /\ last_cmd' = e.cmd
    /\ UNCHANGED <<kind, cfg, state, mapped, icon_name, label, pool, tasks, nsub,
                   idle, timers, next_source, last_sources, discarded, last_applied, polled_flip, ui_blocked,
                   slider, events, last_raw, burst_execs, last_exec>>

\* Another program rewrites the settings file the row's key names.
ExternalWrite ==
    /\ UNCHANGED last_cmd
    /\ UNCHANGED searchVars
    /\ UNCHANGED <<appVars, buildVars, launch_failed>>
    /\ UNCHANGED lockVars
    /\ kind \in ToggleKinds
    /\ cfg.key
    /\ \E text \in ExternalTexts :
          /\ text # setting
          /\ setting' = text
    /\ UNCHANGED <<kind, cfg, state, mapped, icon_name, active, label, pool, tasks,
                   nsub, idle, timers, next_source, last_sources,
                   discarded, last_applied, toggle_cmds, polled_flip,
                   ui_blocked,
                   slider, events, last_raw, burst_execs, last_exec>>

\* ------------------------------------------------------------- SliderRow
\* Python's round() of the quotient n / d, d > 0: half goes to the even side.
PyRound(n, d) ==
    LET q == n \div d
        r == n % d
    IN  IF 2 * r < d THEN q
        ELSE IF 2 * r > d THEN q + 1
        ELSE IF q % 2 = 0 THEN q ELSE q + 1

Min2(a, b) == IF a < b THEN a ELSE b
Max2(a, b) == IF a > b THEN a ELSE b

\* Variant of the quantization that always moves on to the next multiple of
\* step above the value.
QuantizeStepsUp(val, c) ==
    Max2(c.min, Min2((val \div c.step + 1) * c.step, c.max))

\* snapped = round(val / step) * step, clamped to [min, max].
Quantize(val, c) == Max2(c.min, Min2(PyRound(val, c.step) * c.step, c.max))

\* int(value) of the command argument: truncation towards zero.
IntOf(v) == IF v >= 0 THEN v \div Scale ELSE -((-v) \div Scale)

\* `with self._slider_lock` in a handler that the snap's set_value raises on
\* the thread that already holds the lock: threading.Lock is not reentrant.
NestedHandlerBlocks(sl) == sl.lock

\* Variant of the locked part without the test against _last_snapped.
SnapSectionNoRepeatTest(sl, val, c) ==
    LET snapped == Quantize(val, c)
        held == [sl EXCEPT !.lock = TRUE]
    IN  IF sl.changing
        THEN [slider |-> sl, proceed |-> FALSE, blocked |-> FALSE]
        ELSE IF snapped # val
        THEN LET inner == [held EXCEPT !.last_snapped = <<snapped>>,
                                       !.changing = TRUE, !.value = snapped]
             IN  IF NestedHandlerBlocks(inner)
                 THEN [slider |-> inner, proceed |-> FALSE, blocked |-> TRUE]
                 ELSE [slider |-> [inner EXCEPT !.changing = FALSE,
                                                !.pending = <<snapped>>,
                                                !.lock = FALSE],
                       proceed |-> TRUE, blocked |-> FALSE]
        ELSE [slider |-> [sl EXCEPT !.last_snapped = <<snapped>>,
                                    !.pending = <<snapped>>],
              proceed |-> TRUE, blocked |-> FALSE]

\* The part of _on_value_changed under _slider_lock, for a raw value val the
\* scale already shows.  proceed: the handler goes on to the debounce part;
\* blocked: the nested handler call waits for the lock for ever.
SnapSection(sl, val, c) ==
    LET snapped == Quantize(val, c)
        held == [sl EXCEPT !.lock = TRUE]
    IN  IF sl.changing
        THEN [slider |-> sl, proceed |-> FALSE, blocked |-> FALSE]
        ELSE IF sl.last_snapped # <<>> /\ snapped = sl.last_snapped[1]
        THEN [slider |-> sl, proceed |-> FALSE, blocked |-> FALSE]
        ELSE IF snapped # val
        THEN LET inner == [held EXCEPT !.last_snapped = <<snapped>>,
                                       !.changing = TRUE, !.value = snapped]
             IN  IF NestedHandlerBlocks(inner)
                 THEN [slider |-> inner, proceed |-> FALSE, blocked |-> TRUE]
                 ELSE [slider |-> [inner EXCEPT !.changing = FALSE,
                                                !.pending = <<snapped>>,
                                                !.lock = FALSE],
                       proceed |-> TRUE, blocked |-> FALSE]
        ELSE [slider |-> [sl EXCEPT !.last_snapped = <<snapped>>,
                                    !.pending = <<snapped>>],
              proceed |-> TRUE, blocked |-> FALSE]

\* Variant of _execute_debounced_action without the is_destroyed check.
ExecuteDebouncedActionUnchecked(s, sl) ==
    [state |-> [s EXCEPT !.debounce_source_id = 0],
     slider |-> [sl EXCEPT !.pending = <<>>],
     ran |-> sl.pending # <<>>,
     arg |-> IF sl.pending # <<>> THEN IntOf(sl.pending[1]) ELSE 0]

\* SliderRow._execute_debounced_action on state s and slider sl: the command
\* runs with int(pending value) unless the row is destroyed or nothing is
\* pending.  ran: whether the command was executed, arg: its argument.
ExecuteDebouncedAction(s, sl) ==
    IF s.is_destroyed
    THEN [state |-> s, slider |-> sl, ran |-> FALSE, arg |-> 0]
    ELSE [state |-> [s EXCEPT !.debounce_source_id = 0],
          slider |-> [sl EXCEPT !.pending = <<>>],
          ran |-> sl.pending # <<>>,
          arg |-> IF sl.pending # <<>> THEN IntOf(sl.pending[1]) ELSE 0]

\* The `with` blocks a call runs through, as the sequence of its lock
\* acquisitions and releases.
Acquire(l) == [op |-> "acquire", lock |-> l]
Release(l) == [op |-> "release", lock |-> l]

\* The locks the calling thread holds after the first n events of a trace.
HeldAfter(trace, n) ==
    {l \in {"slider", "state"} :
        Cardinality({i \in 1 .. n : trace[i] = Acquire(l)})
          > Cardinality({i \in 1 .. n : trace[i] = Release(l)})}

HoldsBoth(trace) ==
    \E n \in 1 .. Len(trace) : HeldAfter(trace, n) = {"slider", "state"}

\* _execute_debounced_action with the _slider_lock block inside the
\* _state.lock block.
ExecuteDebouncedLocksNested(s) ==
    IF s.is_destroyed
    THEN <<Acquire("state"), Release("state")>>
    ELSE <<Acquire("state"), Acquire("slider"), Release("slider"),
           Release("state")>>

\* _execute_debounced_action: the _state.lock block, left by the return of
\* a destroyed row, then the _slider_lock block.
ExecuteDebouncedLocks(s) ==
    IF s.is_destroyed
    THEN <<Acquire("state"), Release("state")>>
    ELSE <<Acquire("state"), Release("state"),
           Acquire("slider"), Release("slider")>>

\* _on_value_changed for a raw value val: the _slider_lock block (which a
\* blocked nested call never leaves); then, when the handler goes on,
\* _execute_debounced_action without debouncing, or else the _state.lock
\* block that re-arms the timer.
ValueChangedLocks(sl, val, c, s) ==
    LET sec == SnapSection(sl, val, c) IN
    IF sec.blocked THEN <<Acquire("slider")>>
    ELSE <<Acquire("slider"), Release("slider")>> \o
         (IF ~sec.proceed THEN <<>>
          ELSE IF ~c.debounce THEN ExecuteDebouncedLocks(s)
          ELSE <<Acquire("state"), Release("state")>>)

\* _perform_cleanup: mark_destroyed_and_get_sources under the state lock.
CleanupLocks == <<Acquire("state"), Release("state")>>

\* Variant of the debounce re-arm without the is_destroyed check.
RearmDebounceUnchecked(w) ==
    [w EXCEPT !.state.debounce_source_id = w.next_source + 1,
              !.timers = SourceRemove(
                  TimeoutAdd(w.timers, w.next_source, "debounce"),
                  {w.state.debounce_source_id}),
              !.next_source = @ + 1]

\* The end of _on_value_changed with debouncing: under the state lock, a new
\* timeout replaces the stored one, which is removed afterwards.
RearmDebounce(w) ==
    IF w.state.is_destroyed THEN w
    ELSE [w EXCEPT !.state.debounce_source_id = w.next_source + 1,
                   !.timers = SourceRemove(
                       TimeoutAdd(w.timers, w.next_source, "debounce"),
                       {w.state.debounce_source_id}),
                   !.next_source = @ + 1]

DebounceArmed == \E t \in timers : t.cb = "debounce"

\* The user moves the scale to val: value-changed runs _on_value_changed.
SliderEvent ==
    /\ UNCHANGED last_cmd
    /\ UNCHANGED searchVars
    /\ UNCHANGED <<appVars, buildVars, launch_failed>>
    /\ UNCHANGED lockVars
    /\ ~ui_blocked
    /\ kind = "SliderRow"
    /\ events < MaxEvents
    /\ \E val \in cfg.min .. cfg.max :
          /\ val # slider.value
          /\ LET sec == SnapSection([slider EXCEPT !.value = val], val, cfg)
                 fresh == ~DebounceArmed
             IN
             /\ events' = events + 1
             /\ last_raw' = <<val>>
             /\ ui_blocked' = sec.blocked
             /\ IF ~sec.proceed
                THEN /\ slider' = sec.slider
                     /\ burst_execs' = IF fresh THEN 0 ELSE burst_execs
                     /\ UNCHANGED <<state, timers, next_source, last_exec>>
                ELSE IF ~cfg.debounce
                THEN LET x == ExecuteDebouncedAction(state, sec.slider) IN
                     /\ slider' = x.slider
                     /\ state' = x.state
                     /\ burst_execs' = (IF fresh THEN 0 ELSE burst_execs)
                                       + (IF x.ran THEN 1 ELSE 0)
                     /\ last_exec' = IF x.ran THEN <<x.arg>> ELSE last_exec
                     /\ UNCHANGED <<timers, next_source>>
                ELSE /\ slider' = sec.slider
                     /\ burst_execs' = IF fresh THEN 0 ELSE burst_execs
                     /\ last_exec' = last_exec
                     /\ LET w == RearmDebounce(World) IN
                        /\ state' = w.state
                        /\ timers' = w.timers
                        /\ next_source' = w.next_source
    /\ UNCHANGED <<kind, cfg, mapped, icon_name, active, label, pool, tasks, nsub,
                   idle, last_sources, discarded, last_applied, setting,
                   toggle_cmds, polled_flip>>

\* The debounce timeout fires _execute_debounced_action, which returns
\* SOURCE_REMOVE on every path.
DebounceFire ==
    /\ UNCHANGED last_cmd
    /\ UNCHANGED searchVars
    /\ UNCHANGED <<appVars, buildVars, launch_failed>>
    /\ UNCHANGED lockVars
    /\ ~ui_blocked
    /\ \E t \in timers :
          /\ t.cb = "debounce"
          /\ timers' = timers \ {t}
    /\ LET x == ExecuteDebouncedAction(state, slider) IN
       /\ slider' = x.slider
       /\ state' = x.state
       /\ burst_execs' = burst_execs + (IF x.ran THEN 1 ELSE 0)
       /\ last_exec' = IF x.ran THEN <<x.arg>> ELSE last_exec
    /\ UNCHANGED <<kind, cfg, mapped, icon_name, active, label, pool, tasks, nsub,
                   idle, next_source, last_sources, discarded, last_applied,
                   setting, toggle_cmds, polled_flip, ui_blocked, events, last_raw>>

Next ==
    \/ Construct
    \/ SetMapped
    \/ IconTick
    \/ MonitorTick
    \/ ValueTick
    \/ DoUnroot
    \/ Shutdown
    \/ TaskStart
    \/ TaskFinish
    \/ TaskPost
    \/ ApplyIdle
    \/ UserToggle
    \/ ExternalWrite
    \/ SliderEvent
    \/ DebounceFire

Spec == Init /\ [][Next]_vars

\* The row alone with its settings file: no other program writes the file.
NextSoleWriter ==
    \/ Construct
    \/ SetMapped
    \/ MonitorTick
    \/ TaskStart
    \/ TaskFinish
    \/ TaskPost
    \/ ApplyIdle
    \/ UserToggle

SpecSoleWriter == Init /\ [][NextSoleWriter]_vars

\* shutdown() at a moment when no work item is waiting in the queue, so that
\* nothing is cancelled.
ShutdownIdleQueue == Shutdown /\ tasks' = tasks

\* The program with a pool that runs every accepted task: no queued work item
\* is cancelled, a free worker thread takes a queued item, and every command
\* ends (subprocess.run has a timeout), so the worker reaches its finally
\* block.
NextPoolRuns ==
    \/ Construct
    \/ SetMapped
    \/ IconTick
    \/ MonitorTick
    \/ ValueTick
    \/ DoUnroot
    \/ ShutdownIdleQueue
    \/ TaskStart
    \/ TaskFinish
    \/ TaskPost
    \/ ApplyIdle
    \/ UserToggle
    \/ ExternalWrite
    \/ SliderEvent
    \/ DebounceFire

SpecPoolRuns ==
    Init /\ [][NextPoolRuns]_vars /\ WF_vars(TaskStart) /\ WF_vars(TaskFinish)

\* ------------------------------------------------- quantization, on its own
QRange == 4          \* min, max and the value lie in -QRange .. QRange
QStep == 4           \* step lies in 1 .. QStep

\* A slider with any min <= max and step > 0 within the bounds, showing any
\* value of [min, max]; nothing else of the program has happened.
InitQuantize ==
    /\ kind = "SliderRow"
    /\ \E lo, hi \in -QRange .. QRange, step \in 1 .. QStep :
          /\ lo <= hi
          /\ cfg = SliderConfig(lo, hi, step, TRUE)
    /\ \E v \in -QRange .. QRange :
          /\ cfg.min <= v /\ v <= cfg.max
          /\ slider = [value |-> v, changing |-> FALSE, last_snapped |-> <<>>,
                       pending |-> <<>>, lock |-> FALSE]
    /\ state = WidgetState
    /\ mapped = FALSE
    /\ icon_name = DEFAULT_ICON
    /\ active = FALSE
    /\ label = LABEL_PLACEHOLDER
    /\ pool = ExecutorManager
    /\ tasks = {}
    /\ nsub = 0
    /\ idle = <<>>
    /\ timers = {}
    /\ next_source = 0
    /\ last_sources = <<0, 0, 0, 0>>
    /\ discarded = FALSE
    /\ last_applied = [k \in FetchKinds |-> 0]
    /\ setting = "absent"
    /\ toggle_cmds = 0
    /\ polled_flip = FALSE
    /\ ui_blocked = FALSE
    /\ events = 0
    /\ last_raw = <<>>
    /\ burst_execs = 0
    /\ last_exec = <<>>
    /\ last_cmd = None
    /\ state_lock = FALSE
    /\ call_in_lock = FALSE
    /\ NoApp
    /\ NoBuild
    /\ launch_failed = FALSE
    /\ NoSearch

\* The quantization of lines 942-944 applied to the value shown: the first
\* application keeps its input and its result, the second works on that result.
QuantizeStep ==
    /\ UNCHANGED last_cmd
    /\ UNCHANGED searchVars
    /\ UNCHANGED <<appVars, buildVars, launch_failed>>
    /\ events < 2
    /\ events' = events + 1
    /\ slider' = [slider EXCEPT !.value = Quantize(slider.value, cfg),
                                !.last_snapped =
                                    IF events = 0
                                    THEN <<Quantize(slider.value, cfg)>> ELSE @]
    /\ last_raw' = IF events = 0 THEN <<slider.value>> ELSE last_raw
    /\ UNCHANGED <<kind, cfg, state, mapped, icon_name, active, label, pool,
                   tasks, nsub, idle, timers, next_source, last_sources,
                   discarded, last_applied, setting, toggle_cmds, polled_flip,
                   ui_blocked, burst_execs, last_exec, state_lock, call_in_lock>>

SpecQuantize == InitQuantize /\ [][QuantizeStep]_vars

\* ---------------------------------------------------------------- search
SEARCH_MAX_RESULTS == 50
NAVIGATION == "navigation"

\* Texts are sequences of characters.  A property of a config item is absent,
\* null (a YAML key without a value) or a text.
Absent == [tag |-> "absent", s |-> <<>>]
Null == [tag |-> "null", s |-> <<>>]
Text(s) == [tag |-> "str", s |-> s]

\* str.lower() on the letters used here.
LowerChar(ch) ==
    CASE ch = "O" -> "o"
      [] ch = "N" -> "n"
      [] ch = "W" -> "w"
      [] ch = "I" -> "i"
      [] OTHER -> ch

LowerText(t) == [i \in 1 .. Len(t) |-> LowerChar(t[i])]

\* str.strip(): blanks at both ends go.
RECURSIVE StripLeft(_)
StripLeft(t) == IF t # <<>> /\ Head(t) = " " THEN StripLeft(Tail(t)) ELSE t

RECURSIVE StripRight(_)
StripRight(t) ==
    IF t # <<>> /\ t[Len(t)] = " " THEN StripRight(SubSeq(t, 1, Len(t) - 1)) ELSE t

Strip(t) == StripRight(StripLeft(t))

\* `q in t` for str: t has q as a substring.
Contains(q, t) ==
    \E i \in 0 .. (Len(t) - Len(q)) : SubSeq(t, i + 1, i + Len(q)) = q

\* str(props.get(name, default)): the default for an absent key, "None" for
\* a null value, the text otherwise.
StrOf(v, default) ==
    CASE v.tag = "absent" -> default
      [] v.tag = "null" -> <<"N", "o", "n", "e">>
      [] OTHER -> v.s

\* Truth value of props.get("description", ""): only a non-empty text.
Truthy(v) == v.tag = "str" /\ v.s # <<>>

\* The default submenu title, and the two separators of the f-strings: the
\* angle quotation mark between breadcrumb parts is written ">" here and the
\* bullet before the original description "*".
Submenu == <<"S", "u", "b", "m", "e", "n", "u">>
CrumbSep == <<" ", ">", " ">>
DescSep == <<" ", "*", " ">>

\* Variant of the yield without deepcopy: the breadcrumb is written into the
\* item of the config tree itself.
YieldInPlace(item, breadcrumb) ==
    LET result == [item EXCEPT !.description =
                      Text(IF Truthy(item.description)
                           THEN breadcrumb \o DescSep \o item.description.s
                           ELSE breadcrumb)]
    IN  [result |-> result, original |-> result]

\* The matching item as the generator hands it out, and the item the config
\* tree holds afterwards: the breadcrumb is written into deepcopy(item).
YieldCopy(item, breadcrumb) ==
    [result |-> [item EXCEPT !.description =
                    Text(IF Truthy(item.description)
                         THEN breadcrumb \o DescSep \o item.description.s
                         ELSE breadcrumb)],
     original |-> item]

\* _recursive_search over the sections of a layout (SearchLayout) and the
\* items of a section (SearchItems), depth first.  seen counts the items the
\* traversal has looked at; each result carries the count at its yield.  The
\* value is the results in yield order, the layout as it is afterwards and
\* the final count.  The items of a section are taken first half, then second
\* half, which is the order of the for loop.
RECURSIVE SearchLayout(_, _, _, _)
RECURSIVE SearchItems(_, _, _, _)
SearchLayout(layout, query, breadcrumb, seen) ==
    IF layout = <<>>
    THEN [results |-> <<>>, layout |-> <<>>, seen |-> seen]
    ELSE LET a == SearchItems(Head(layout), query, breadcrumb, seen)
             b == SearchLayout(Tail(layout), query, breadcrumb, a.seen)
         IN  [results |-> a.results \o b.results,
              layout |-> <<a.items>> \o b.layout,
              seen |-> b.seen]

SearchItems(items, query, breadcrumb, seen) ==
    IF items = <<>>
    THEN [results |-> <<>>, items |-> <<>>, seen |-> seen]
    ELSE IF Len(items) = 1
    THEN LET item == items[1]
             title == LowerText(StrOf(item.title, <<>>))
             desc == LowerText(StrOf(item.description, <<>>))
             hit == /\ item.type # NAVIGATION
                    /\ (Contains(query, title) \/ Contains(query, desc))
             y == YieldCopy(item, breadcrumb)
             kept == IF hit THEN y.original ELSE item
             sub == SearchLayout(item.layout, query,
                                 breadcrumb \o CrumbSep \o StrOf(item.title, Submenu),
                                 seen + 1)
         IN  [results |-> (IF hit THEN <<[item |-> y.result, seen |-> seen + 1]>>
                           ELSE <<>>) \o sub.results,
              items |-> <<[kept EXCEPT !.layout = sub.layout]>>,
              seen |-> sub.seen]
    ELSE LET half == Len(items) \div 2
             a == SearchItems(SubSeq(items, 1, half), query, breadcrumb, seen)
             b == SearchItems(SubSeq(items, half + 1, Len(items)), query,
                              breadcrumb, a.seen)
         IN  [results |-> a.results \o b.results,
              items |-> a.items \o b.items,
              seen |-> b.seen]

\* _iter_matching_items: the pages in order, each with its title as the
\* breadcrumb.
RECURSIVE IterMatchingItems(_, _, _)
IterMatchingItems(pages, query, seen) ==
    IF pages = <<>>
    THEN [results |-> <<>>, pages |-> <<>>, seen |-> seen]
    ELSE LET page == Head(pages)
             a == SearchLayout(page.layout, query, page.title, seen)
             b == IterMatchingItems(Tail(pages), query, a.seen)
         IN  [results |-> a.results \o b.results,
              pages |-> <<[page EXCEPT !.layout = a.layout]>> \o b.pages,
              seen |-> b.seen]

\* Variant of _populate_search_results whose loop has no break: the generator
\* is run to its end.
PopulateSearchResultsNoBreak(pages, query) ==
    LET it == IterMatchingItems(pages, query, 0)
        n == Len(it.results)
        count == IF n < SEARCH_MAX_RESULTS THEN n ELSE SEARCH_MAX_RESULTS
        items == [i \in 1 .. count |-> [row |-> "item", item |-> it.results[i].item]]
    IN  [rows |-> IF n > SEARCH_MAX_RESULTS
                  THEN Append(items, [row |-> "overflow", item |-> <<>>])
                  ELSE IF count = 0
                  THEN <<[row |-> "no_results", item |-> <<>>]>>
                  ELSE items,
         pages |-> it.pages,
         looked |-> it.seen]

\* _populate_search_results: the rows added to the results group.  The loop
\* takes matches from the generator until it has SEARCH_MAX_RESULTS rows and
\* one more match arrives, which it answers with the overflow row.  looked:
\* how many items the generator had looked at when the loop ended.
PopulateSearchResults(pages, query) ==
    LET it == IterMatchingItems(pages, query, 0)
        n == Len(it.results)
        count == IF n < SEARCH_MAX_RESULTS THEN n ELSE SEARCH_MAX_RESULTS
        items == [i \in 1 .. count |-> [row |-> "item", item |-> it.results[i].item]]
    IN  [rows |-> IF n > SEARCH_MAX_RESULTS
                  THEN Append(items, [row |-> "overflow", item |-> <<>>])
                  ELSE IF count = 0
                  THEN <<[row |-> "no_results", item |-> <<>>]>>
                  ELSE items,
         pages |-> it.pages,
         looked |-> IF n > SEARCH_MAX_RESULTS
                    THEN it.results[SEARCH_MAX_RESULTS + 1].seen
                    ELSE it.seen]

\* ------------------------------------------------- the search, on its own
MaxSearches == 2     \* search-changed signals per run
WideExtra == 2       \* a wide page holds up to SEARCH_MAX_RESULTS + WideExtra matches

Item(type, title, description, layout) ==
    [type |-> type, title |-> title, description |-> description, layout |-> layout]

Wi == <<"W", "i">>
ON == <<"O", "N">>

\* What one config item may be: a button with neither text holding "on", with
\* the title holding it in capitals, with the description holding it, with a
\* null description, with an empty description, and a navigation item whose
\* title holds it.
Palette ==
    {Item("button", Text(Wi), Absent, <<>>),
     Item("button", Text(ON), Absent, <<>>),
     Item("button", Text(Wi), Text(<<"o", "n">>), <<>>),
     Item("button", Text(Wi), Null, <<>>),
     Item("button", Text(Wi), Text(<<>>), <<>>),
     Item(NAVIGATION, Text(ON), Absent, <<>>)}

\* Two pages: the first holds an item with a submenu that holds an item with
\* a submenu of its own, the second holds one plain item.
TreeConfigs ==
    {<<[title |-> <<"P">>,
        layout |-> <<<<[y EXCEPT !.layout =
                           <<<<[z EXCEPT !.layout = <<<<d>>>>]>>>>]>>>>],
       [title |-> <<"Q">>, layout |-> <<<<x>>>>]>> :
        y \in Palette, z \in Palette, d \in Palette, x \in Palette}

\* One page of one section: n items with "on" in the title, then two items
\* without it.
WideConfigs ==
    {<<[title |-> <<"P">>,
        layout |-> <<[i \in 1 .. n + 2 |->
                        IF i <= n THEN Item("button", Text(ON), Absent, <<>>)
                        ELSE Item("button", Text(Wi), Absent, <<>>)]>>]>> :
        n \in (SEARCH_MAX_RESULTS - 1) .. (SEARCH_MAX_RESULTS + WideExtra)}

\* What the user may have typed when the search-changed signal arrives.
Queries == {<<" ", "O", "n">>, <<"w", "i">>, <<"x">>, <<" ">>}

\* The window after _do_load_config and _build_ui: a config is loaded, no row
\* of it is built yet, the search entry is untouched.
InitSearch ==
    /\ config \in TreeConfigs \cup WideConfigs
    /\ search_timer = {}
    /\ debounce_source_id = 0
    /\ results = <<>>
    /\ last_query = <<>>
    /\ looked = 0
    /\ searches = 0
    /\ kind = "none"
    /\ cfg = [dyn_icon |-> FALSE]
    /\ state = WidgetState
    /\ mapped = FALSE
    /\ icon_name = DEFAULT_ICON
    /\ active = FALSE
    /\ label = LABEL_PLACEHOLDER
    /\ pool = ExecutorManager
    /\ tasks = {}
    /\ nsub = 0
    /\ idle = <<>>
    /\ timers = {}
    /\ next_source = 0
    /\ last_sources = <<0, 0, 0, 0>>
    /\ discarded = FALSE
    /\ last_applied = [k \in FetchKinds |-> 0]
    /\ setting = "absent"
    /\ toggle_cmds = 0
    /\ polled_flip = FALSE
    /\ ui_blocked = FALSE
    /\ slider = [value |-> 0, changing |-> FALSE, last_snapped |-> <<>>,
                 pending |-> <<>>, lock |-> FALSE]
    /\ events = 0
    /\ last_raw = <<>>
    /\ burst_execs = 0
    /\ last_exec = <<>>
    /\ last_cmd = None
    /\ state_lock = FALSE
    /\ call_in_lock = FALSE
    /\ NoApp
    /\ NoBuild
    /\ launch_failed = FALSE

UnchangedBySearch ==
    UNCHANGED <<kind, cfg, state, mapped, icon_name, active, label, pool, tasks,
                nsub, idle, timers, next_source, last_sources, discarded,
                last_applied, setting, toggle_cmds, polled_flip, ui_blocked,
                slider, events, last_raw, burst_execs, last_exec, last_cmd,
                state_lock, call_in_lock>>

\* _cancel_debounce never looks at the timeouts (a mutation of CancelDebounce).
CancelDebounceForgets(sources, id) == sources

\* _cancel_debounce: GLib.source_remove of the remembered source, when one is
\* remembered; what is left of the main loop's pending search timeouts.
CancelDebounce(sources, id) ==
    IF id > 0 THEN {s \in sources : s.id # id} ELSE sources

\* _on_search_changed: the remembered timer is cancelled and a new one is
\* armed with the entry's text.  GLib.timeout_add hands out a fresh positive
\* id, here the number of the change.
OnSearchChanged ==
    /\ searches < MaxSearches
    /\ searches' = searches + 1
    /\ \E text \in Queries :
          LET src_id == searches + 1 IN
          /\ search_timer' = CancelDebounce(search_timer, debounce_source_id)
                                \cup {[id |-> src_id, query |-> text]}
          /\ debounce_source_id' = IF src_id > 0 THEN src_id ELSE 0
    /\ UNCHANGED <<config, results, last_query, looked>>
    /\ UNCHANGED <<appVars, buildVars, launch_failed>>
    /\ UnchangedBySearch

\* _execute_search, when the debounce timer fires: an empty query resets the
\* results group, any other query fills a new group.
ExecuteSearch ==
    \E source \in search_timer :
    /\ search_timer' = search_timer \ {source}
    /\ debounce_source_id' = 0
    /\ LET query == LowerText(Strip(source.query)) IN
       IF query = <<>>
       THEN /\ results' = <<>>
            /\ last_query' = <<>>
            /\ looked' = 0
            /\ config' = config
       ELSE LET r == PopulateSearchResults(config, query) IN
            /\ results' = r.rows
            /\ last_query' = <<query>>
            /\ looked' = r.looked
            /\ config' = r.pages
    /\ UNCHANGED searches
    /\ UNCHANGED <<appVars, buildVars, launch_failed>>
    /\ UnchangedBySearch

NextSearch ==
    \/ OnSearchChanged
    \/ ExecuteSearch

SpecSearch == InitSearch /\ [][NextSearch]_vars

\* ------------------------------------------- the search of the rework version
\* context_item = item.copy() and the assignment to
\* context_item["properties"]["description"]: dict.copy() is shallow, so the
\* copy and the config's item share one properties dict.  result is the item
\* handed to _build_item_row, original the item the config holds afterwards.
ReworkContextItem(item, page_name) ==
    LET changed == [item EXCEPT !.description =
                       Text(IF Truthy(item.description)
                            THEN page_name \o DescSep \o item.description.s
                            ELSE page_name)]
    IN  [result |-> changed, original |-> changed]

\* Whether the rework's loop takes an item: query in title or query in desc.
ReworkHit(item, query) ==
    \/ Contains(query, LowerText(StrOf(item.title, <<>>)))
    \/ Contains(query, LowerText(StrOf(item.description, <<>>)))

\* The loops of _perform_search over the items of a section, the sections
\* of a page and the pages: the rows added, in order, and what the config
\* holds afterwards.  Submenus are not searched.
RECURSIVE ReworkItems(_, _, _)
ReworkItems(items, page_name, query) ==
    IF items = <<>>
    THEN [rows |-> <<>>, items |-> <<>>]
    ELSE LET item == Head(items)
             hit == ReworkHit(item, query)
             c == ReworkContextItem(item, page_name)
             rest == ReworkItems(Tail(items), page_name, query)
         IN  [rows |-> (IF hit THEN <<[row |-> "item", item |-> c.result]>>
                        ELSE <<>>) \o rest.rows,
              items |-> <<IF hit THEN c.original ELSE item>> \o rest.items]

RECURSIVE ReworkSections(_, _, _)
ReworkSections(layout, page_name, query) ==
    IF layout = <<>>
    THEN [rows |-> <<>>, layout |-> <<>>]
    ELSE LET a == ReworkItems(Head(layout), page_name, query)
             b == ReworkSections(Tail(layout), page_name, query)
         IN  [rows |-> a.rows \o b.rows, layout |-> <<a.items>> \o b.layout]

RECURSIVE ReworkPages(_, _)
ReworkPages(pages, query) ==
    IF pages = <<>>
    THEN [rows |-> <<>>, pages |-> <<>>]
    ELSE LET page == Head(pages)
             a == ReworkSections(page.layout, page.title, query)
             b == ReworkPages(Tail(pages), query)
         IN  [rows |-> a.rows \o b.rows,
              pages |-> <<[page EXCEPT !.layout = a.layout]>> \o b.pages]

\* _perform_search: the rows of the results group, "No results found" when
\* nothing matched.
ReworkPerformSearch(pages, query) ==
    LET r == ReworkPages(pages, query) IN
    [rows |-> IF r.rows = <<>> THEN <<[row |-> "no_results", item |-> <<>>]>>
              ELSE r.rows,
     pages |-> r.pages]

\* _on_search_changed of the rework version: there is no debounce timer; an
\* empty query empties the results group, any other query refills it.
ReworkSearchChanged ==
    /\ searches < MaxSearches
    /\ searches' = searches + 1
    /\ \E text \in Queries :
          LET query == LowerText(Strip(text)) IN
          IF query = <<>>
          THEN /\ results' = <<>>
               /\ UNCHANGED <<config, last_query>>
          ELSE LET r == ReworkPerformSearch(config, query) IN
               /\ results' = r.rows
               /\ config' = r.pages
               /\ last_query' = <<query>>
    /\ UNCHANGED <<search_timer, debounce_source_id, looked>>
    /\ UNCHANGED <<appVars, buildVars, launch_failed>>
    /\ UnchangedBySearch

\* The rework's window with a config of two pages loaded.
InitRework ==
    /\ InitSearch
    /\ config \in TreeConfigs

SpecRework == InitRework /\ [][ReworkSearchChanged]_vars

\* ------------------------------------------------------ config validation
\* What utility.load_config gives for the file on disk: it raises
\* FileNotFoundError or another exception, or it returns the parsed document.
\* A document is a mapping or a value of another type; the value under
\* 'pages' is absent, a list or something else; a page is a mapping, with or
\* without a 'title' key, or something else.
DocRaises(exc) == [tag |-> "raise", exc |-> exc]
DocOther(type) == [tag |-> "other", type |-> type]
DocDict(pages) == [tag |-> "dict", pages |-> pages]
PagesAbsent == [tag |-> "absent", elems |-> <<>>]
PagesOther == [tag |-> "other", elems |-> <<>>]
PagesList(elems) == [tag |-> "list", elems |-> elems]
PageOther == [tag |-> "other", title |-> Absent, layout |-> <<>>]
Page(title, layout) == [tag |-> "dict", title |-> title, layout |-> layout]

\* _do_load_config: the pages it returns and the error message (None: the
\* document is accepted).  Page indices in messages count from 0.
CONFIG_FILENAME == "dusky_config.yaml"

Rejected(msg) == [pages |-> <<>>, error |-> msg]

DoLoadConfig(doc) ==
    IF doc.tag = "raise"
    THEN IF doc.exc = "FileNotFoundError"
         THEN Rejected("Config file not found: " \o CONFIG_FILENAME)
         ELSE Rejected("Config parse error: " \o doc.exc)
    ELSE IF doc.tag # "dict"
    THEN Rejected("Config is not a dictionary (got " \o doc.type \o ")")
    ELSE IF doc.pages.tag = "absent"
    THEN Rejected("Config missing required 'pages' key")
    ELSE IF doc.pages.tag # "list"
    THEN Rejected("'pages' must be a list")
    ELSE LET elems == doc.pages.elems
             bad == {i \in 1 .. Len(elems) :
                        elems[i].tag # "dict" \/ elems[i].title.tag = "absent"}
         IN  IF bad = {}
             THEN [pages |-> elems, error |-> None]
             ELSE LET i == CHOOSE j \in bad : \A k \in bad : j <= k IN
                  IF elems[i].tag # "dict"
                  THEN Rejected("Page " \o ToString(i - 1) \o " is not a dictionary")
                  ELSE Rejected("Page " \o ToString(i - 1) \o
                                " missing required 'title' key")

\* ------------------------------------------------------------ row builders
\* A config item as the builders see it: its type, its title, and what its
\* 'properties' value is: a mapping ("dict"), a mapping whose icon is a file
\* under the home of a user that does not exist ("bad_icon": Path.expanduser
\* raises RuntimeError in _create_icon_widget), or null ("null": every
\* properties.get raises AttributeError).  children: the 'items' of an
\* expander.
BuildItem(type, title, props, children) ==
    [type |-> type, title |-> title, props |-> props, children |-> children]

\* Classes that build their icon with _create_icon_widget.
IconWidgetClasses ==
    {"ButtonRow", "ToggleRow", "LabelRow", "SliderRow", "NavigationRow",
     "SelectionRow", "EntryRow", "ExpanderRow"}

\* The exception a constructor raises for these properties (None: it returns).
CtorRaises(widget, props) ==
    IF props = "null" THEN "AttributeError"
    ELSE IF props = "bad_icon" /\ widget \in IconWidgetClasses THEN "RuntimeError"
    ELSE None

Built(widget, item) == [tag |-> "row", widget |-> widget, title |-> item.title, msg |-> None]
Raised(exc) == [tag |-> "raise", widget |-> None, title |-> None, msg |-> exc]

\* _build_error_row
BuildErrorRow(error, title) ==
    [tag |-> "row", widget |-> "ErrorRow", title |-> title, msg |-> error]

\* The match statement of _build_item_row.
WidgetOfType(type) ==
    CASE type = "button" -> "ButtonRow"
      [] type = "toggle" -> "ToggleRow"
      [] type = "grid_card" -> "ButtonRow"
      [] type = "toggle_card" -> "ToggleRow"
      [] type = "label" -> "LabelRow"
      [] type = "slider" -> "SliderRow"
      [] type = "navigation" -> "NavigationRow"
      [] type = "warning_banner" -> "WarningBanner"
      [] OTHER -> "ButtonRow"

\* _build_item_row: the row, or the exception that leaves the function.  The
\* except clause reads props.get("title", "Unknown"), which raises again when
\* props is not a mapping.
BuildItemRow(item) ==
    LET widget == WidgetOfType(item.type)
        exc == CtorRaises(widget, item.props)
    IN  IF exc = None THEN Built(widget, item)
        ELSE IF item.props = "null" THEN Raised("AttributeError")
        ELSE BuildErrorRow(exc, item.title)

\* The rows of a sequence of build results, or the first exception among them.
Collect(built) ==
    LET bad == {i \in 1 .. Len(built) : built[i].tag = "raise"} IN
    IF bad = {}
    THEN [tag |-> "ok", rows |-> built, msg |-> None]
    ELSE [tag |-> "raise", rows |-> <<>>,
          msg |-> built[CHOOSE j \in bad : \A k \in bad : j <= k].msg]

\* _build_standard_section
BuildStandardSection(section) ==
    Collect([i \in 1 .. Len(section.items) |-> BuildItemRow(section.items[i])])

\* _build_grid_section: a card per item, with no try statement around the
\* constructors.
BuildGridCard(item) ==
    LET widget == IF item.type = "toggle_card" THEN "GridToggleCard" ELSE "GridCard"
        exc == CtorRaises(widget, item.props)
    IN  IF exc = None THEN Built(widget, item) ELSE Raised(exc)

BuildGridSection(section) ==
    Collect([i \in 1 .. Len(section.items) |-> BuildGridCard(section.items[i])])

\* _populate_pref_content: a group per section, or the exception of the first
\* section that raises.
PopulatePrefContent(layout) ==
    LET groups == [i \in 1 .. Len(layout) |->
                      IF layout[i].type = "grid_section"
                      THEN BuildGridSection(layout[i])
                      ELSE BuildStandardSection(layout[i])]
        bad == {i \in 1 .. Len(groups) : groups[i].tag = "raise"}
    IN  IF bad = {}
        THEN [tag |-> "ok", groups |-> [i \in 1 .. Len(groups) |-> groups[i].rows],
              msg |-> None]
        ELSE [tag |-> "raise", groups |-> <<>>,
              msg |-> groups[CHOOSE j \in bad : \A k \in bad : j <= k].msg]

\* ExpanderRow._build_single_row: properties that are no mapping become {},
\* an unknown type and a constructor that raises give None.
ExpanderWidgetOfType(type) ==
    CASE type = "button" -> "ButtonRow"
      [] type = "toggle" -> "ToggleRow"
      [] type = "label" -> "LabelRow"
      [] type = "slider" -> "SliderRow"
      [] type = "selection" -> "SelectionRow"
      [] type = "entry" -> "EntryRow"
      [] type = "navigation" -> "NavigationRow"
      [] type = "expander" -> "ExpanderRow"
      [] OTHER -> "None"

BuildSingleRow(item) ==
    LET widget == ExpanderWidgetOfType(item.type)
        props == IF item.props = "null" THEN "dict" ELSE item.props
        title == IF item.props = "null" THEN "Unnamed" ELSE item.title
    IN  IF widget = "None" \/ CtorRaises(widget, props) # None
        THEN [tag |-> "none", widget |-> None, title |-> None, msg |-> None]
        ELSE [tag |-> "row", widget |-> widget, title |-> title, msg |-> None]

\* ExpanderRow._build_child_rows: the rows added, in order.
BuildChildRows(items) ==
    SelectSeq([i \in 1 .. Len(items) |-> BuildSingleRow(items[i])],
              LAMBDA r : r.tag = "row")

\* _build_item_row of the earlier generation of the app: no try statement,
\* the else branch builds a button.
ReworkBuildItemRow(item) ==
    LET widget == CASE item.type = "button" -> "ButtonRow"
                    [] item.type = "toggle" -> "ToggleRow"
                    [] item.type = "label" -> "LabelRow"
                    [] item.type = "slider" -> "SliderRow"
                    [] item.type = "warning_banner" -> "WarningBanner"
                    [] OTHER -> "ButtonRow"
    IN  IF item.props = "null" THEN Raised("AttributeError") ELSE Built(widget, item)

\* ------------------------------------------------- the application window
MaxReloads == 2      \* hot reloads started per run

\* _do_load_css: the stylesheet text, "" when the file is missing.  A file
\* that is not valid UTF-8 makes read_text raise UnicodeDecodeError, which
\* the function does not catch.
DoLoadCss(css) == IF css = "missing" THEN "" ELSE css

\* _load_config_and_css_sync and background_load of _reload_app_async: the
\* ConfigLoadResult, or the exception that leaves the function.
LoadConfigAndCss(d) ==
    LET c == DoLoadConfig(d.doc) IN
    IF d.css = "undecodable"
    THEN [tag |-> "raise", pages |-> <<>>, css |-> "", error |-> None,
          exc |-> "UnicodeDecodeError"]
    ELSE [tag |-> "ok", pages |-> c.pages, css |-> DoLoadCss(d.css),
          error |-> c.error, exc |-> None]

Untitled == <<"U", "n", "t", "i", "t", "l", "e", "d">>

\* The index _populate_pages selects among n rows: select_index when a row
\* with that index was appended, the first row otherwise.
RowToSelectAlwaysFirst(n, select_index) == 0

RowToSelect(n, select_index) ==
    IF 0 <= select_index /\ select_index < n THEN select_index ELSE 0

\* _populate_pages: a sidebar row and a stack page per config page, then the
\* selection.  When a page's content raises, the pages before it are in the
\* stack, the sidebar has the row of the failing page too, and nothing is
\* selected.
PopulatePages(pages, select_index) ==
    LET content == [i \in 1 .. Len(pages) |-> PopulatePrefContent(pages[i].layout)]
        built == [i \in 1 .. Len(pages) |->
                     [title |-> StrOf(pages[i].title, Untitled),
                      groups |-> content[i].groups]]
        bad == {i \in 1 .. Len(pages) : content[i].tag = "raise"}
    IN  IF bad = {}
        THEN [tag |-> "ok", view |-> "pages", pages_built |-> built,
              selected |-> RowToSelect(Len(pages), select_index), exc |-> None]
        ELSE LET k == CHOOSE j \in bad : \A m \in bad : j <= m IN
             [tag |-> "raise", view |-> "partial",
              pages_built |-> SubSeq(built, 1, k - 1), selected |-> -1,
              exc |-> content[k].msg]

\* The end of _build_ui and of _clear_and_rebuild_ui: the error page, the
\* empty page or the pages.
ShowContentIgnoringError(pages, error, select_index) ==
    IF pages = <<>>
    THEN [tag |-> "ok", view |-> "empty", pages_built |-> <<>>, selected |-> -1,
          exc |-> None]
    ELSE PopulatePages(pages, select_index)

ShowContent(pages, error, select_index) ==
    IF error # None
    THEN [tag |-> "ok", view |-> "error", pages_built |-> <<>>, selected |-> -1,
          exc |-> None]
    ELSE IF pages = <<>>
    THEN [tag |-> "ok", view |-> "empty", pages_built |-> <<>>, selected |-> -1,
          exc |-> None]
    ELSE PopulatePages(pages, select_index)

UnchangedByApp ==
    /\ UNCHANGED <<kind, cfg, state, mapped, icon_name, active, label, pool, tasks,
                   nsub, idle, timers, next_source, last_sources, discarded,
                   last_applied, setting, toggle_cmds, polled_flip, ui_blocked,
                   slider, events, last_raw, burst_execs, last_exec, last_cmd,
                   state_lock, call_in_lock>>
    /\ UNCHANGED <<search_timer, debounce_source_id, results, last_query, looked,
                   searches>>
    /\ UNCHANGED <<buildVars, launch_failed>>

\* do_activate on a cold start: load synchronously, store the result, build
\* the window and present it.  _build_ui stores the new window before it
\* fills it, so a build that raises leaves a window that was not presented.
Activate ==
    /\ ~window
    /\ ~crashed
    /\ LET r == LoadConfigAndCss(disk) IN
       IF r.tag = "raise"
       THEN /\ crashed' = TRUE
            /\ UNCHANGED <<config, css_content, config_error, window, view,
                           pages_built, selected, visible>>
       ELSE LET ui == ShowContent(r.pages, r.error, -1) IN
            /\ config' = r.pages
            /\ css_content' = r.css
            /\ config_error' = r.error
            /\ window' = TRUE
            /\ view' = ui.view
            /\ pages_built' = ui.pages_built
            /\ selected' = ui.selected
            /\ crashed' = (ui.tag = "raise")
            /\ visible' = (ui.tag # "raise")
    /\ activations' = activations + 1
    /\ toasts' = <<>>
    /\ UNCHANGED <<disk, reloads, nreloads, completed>>
    /\ UnchangedByApp

\* Sections and pages the files on disk may hold: a page of one button, a
\* page whose grid section holds a card with null properties, a page with an
\* empty title and a page with a null title.
Section(type, items) == [type |-> type, items |-> items]

GoodPage(t) ==
    Page(Text(<<t>>), <<Section("section", <<BuildItem("button", "a", "dict", <<>>)>>)>>)

NullCardPage ==
    Page(Text(<<"G">>),
         <<Section("grid_section", <<BuildItem("grid_card", "c", "null", <<>>)>>)>>)

Docs ==
    {DocRaises("FileNotFoundError"), DocRaises("YAMLError"), DocOther("list"),
     DocDict(PagesAbsent), DocDict(PagesOther),
     DocDict(PagesList(<<GoodPage("P"), PageOther>>)),
     DocDict(PagesList(<<GoodPage("P"), Page(Absent, <<>>)>>)),
     DocDict(PagesList(<<>>)),
     DocDict(PagesList(<<GoodPage("P")>>)),
     DocDict(PagesList(<<GoodPage("P"), GoodPage("Q"), GoodPage("R")>>)),
     DocDict(PagesList(<<GoodPage("P"), NullCardPage>>)),
     DocDict(PagesList(<<Page(Text(<<>>), <<>>)>>)),
     DocDict(PagesList(<<Page(Null, <<>>)>>))}

\* The files on disk at startup: every document beside stylesheet "css-a",
\* and documents beside another stylesheet, a missing one and an undecodable
\* one.
Disks ==
    {[doc |-> d, css |-> "css-a"] : d \in Docs} \cup
    {[doc |-> DocDict(PagesList(<<GoodPage("Q"), GoodPage("P")>>)), css |-> c] :
        c \in {"missing", "undecodable"}} \cup
    {[doc |-> DocDict(PagesList(<<GoodPage("P"), GoodPage("Q"), GoodPage("R")>>)),
      css |-> "css-b"]}

\* What the files are rewritten to while the app runs: one page, three pages
\* beside another stylesheet, a page that cannot be built, no 'pages' key,
\* and an undecodable stylesheet.
EditedDisks ==
    {[doc |-> DocDict(PagesList(<<GoodPage("P")>>)), css |-> "css-a"],
     [doc |-> DocDict(PagesList(<<GoodPage("P"), GoodPage("Q"), GoodPage("R")>>)),
      css |-> "css-b"],
     [doc |-> DocDict(PagesList(<<GoodPage("P"), NullCardPage>>)), css |-> "css-a"],
     [doc |-> DocDict(PagesAbsent), css |-> "css-a"],
     [doc |-> DocDict(PagesList(<<GoodPage("Q"), GoodPage("P")>>)),
      css |-> "undecodable"]}

\* Another program rewrites the config file and the stylesheet.  The files
\* are read by background_load only, once the window is up, so a rewrite is
\* taken while a reload is loading: one made at any other moment is seen by
\* the next load exactly as if it had been made just before it.
EditDisk ==
    /\ \E r \in reloads : r.phase = "loading"
    /\ \E d \in EditedDisks : d # disk /\ disk' = d
    /\ UNCHANGED <<config, css_content, config_error, window, view, pages_built,
                   selected, toasts, reloads, nreloads, completed, crashed>>
    /\ UNCHANGED <<visible, activations>>
    /\ UnchangedByApp

\* The user selects a sidebar row: _on_row_selected shows its page.
SelectRow ==
    /\ window
    /\ visible
    /\ ~crashed
    /\ view = "pages"
    /\ \E i \in 0 .. (Len(pages_built) - 1) : i # selected /\ selected' = i
    /\ toasts' = <<>>
    /\ UNCHANGED <<config, disk, css_content, config_error, window, view,
                   pages_built, reloads, nreloads, completed, crashed>>
    /\ UNCHANGED <<visible, activations>>
    /\ UnchangedByApp

\* Ctrl+R: _reload_app_async captures the selected index and a snapshot of
\* config and stylesheet, and starts the reload-worker thread.
ReloadStart ==
    /\ window
    /\ visible
    /\ ~crashed
    /\ nreloads < MaxReloads
    /\ nreloads' = nreloads + 1
    /\ reloads' = reloads \cup
          {[id |-> nreloads + 1, current_page |-> selected, old_config |-> config,
            old_css |-> css_content, phase |-> "loading", order |-> 0,
            result |-> <<>>, error |-> None]}
    /\ completed' = Append(completed, 0)
    /\ toasts' = <<>>
    /\ UNCHANGED <<config, disk, css_content, config_error, window, view,
                   pages_built, selected, crashed>>
    /\ UNCHANGED <<visible, activations>>
    /\ UnchangedByApp

\* The number of idle callbacks the reload workers have queued so far.
Posted == nreloads - Cardinality({r \in reloads : r.phase = "loading"})

\* wrapper() without its except clause: an exception of the task ends the
\* thread before GLib.idle_add.
ReloadLoadNoCatch ==
    /\ \E r \in reloads :
          /\ r.phase = "loading"
          /\ LET l == LoadConfigAndCss(disk) IN
             reloads' = IF l.tag = "ok"
                        THEN (reloads \ {r}) \cup
                                {[r EXCEPT !.phase = "posted",
                                           !.order = Posted + 1,
                                           !.result = <<l>>]}
                        ELSE reloads \ {r}
    /\ UNCHANGED <<config, disk, css_content, config_error, window, view,
                   pages_built, selected, toasts, nreloads, completed, crashed>>
    /\ UNCHANGED <<visible, activations>>
    /\ UnchangedByApp

\* wrapper() of _run_in_background on the reload-worker thread: run the task,
\* catch whatever it raises, hand result and error to GLib.idle_add.  order
\* is the callback's place in the main loop's queue of idle sources.
ReloadLoad ==
    /\ \E r \in reloads :
          /\ r.phase = "loading"
          /\ LET l == LoadConfigAndCss(disk) IN
             reloads' = (reloads \ {r}) \cup
                {[r EXCEPT !.phase = "posted",
                           !.order = Posted + 1,
                           !.result = IF l.tag = "ok" THEN <<l>> ELSE <<>>,
                           !.error = l.exc]}
    /\ UNCHANGED <<config, disk, css_content, config_error, window, view,
                   pages_built, selected, toasts, nreloads, completed, crashed>>
    /\ UNCHANGED <<visible, activations>>
    /\ UnchangedByApp

\* on_complete(result, error) as the idle callback on the UI thread; it
\* returns None, so the idle source is removed after this one call.  Idle
\* sources of one priority are dispatched in the order they were queued.
ReloadComplete ==
    /\ \E r \in reloads :
          /\ r.phase = "posted"
          /\ \A x \in reloads : x.phase = "posted" => r.order <= x.order
          /\ reloads' = reloads \ {r}
          /\ completed' = [completed EXCEPT ![r.id] = @ + 1]
          /\ IF r.error # None
             THEN /\ toasts' = <<"Reload Failed: Internal error">>
                  /\ UNCHANGED <<config, css_content, config_error, view,
                                 pages_built, selected>>
             ELSE IF r.result = <<>>
             THEN /\ toasts' = <<"Reload Failed: No result">>
                  /\ UNCHANGED <<config, css_content, config_error, view,
                                 pages_built, selected>>
             ELSE LET l == r.result[1]
                      ui == ShowContent(l.pages, l.error, r.current_page)
                  IN  /\ view' = ui.view
                      /\ pages_built' = ui.pages_built
                      /\ selected' = ui.selected
                      /\ IF ui.tag = "raise"
                         THEN /\ config' = r.old_config
                              /\ css_content' = r.old_css
                              /\ config_error' = None
                              /\ toasts' = <<"Reload Failed: UI rebuild error">>
                         ELSE /\ config' = l.pages
                              /\ css_content' = l.css
                              /\ config_error' = l.error
                              /\ toasts' = <<IF l.error # None THEN "Config Error"
                                              ELSE "Configuration Reloaded">>
    /\ UNCHANGED <<disk, window, nreloads, crashed>>
    /\ UNCHANGED <<visible, activations>>
    /\ UnchangedByApp

\* The process before do_activate, with any of the files on disk.
InitApp ==
    /\ disk \in Disks
    /\ css_content = ""
    /\ config_error = None
    /\ window = FALSE
    /\ view = "none"
    /\ pages_built = <<>>
    /\ selected = -1
    /\ toasts = <<>>
    /\ reloads = {}
    /\ nreloads = 0
    /\ completed = <<>>
    /\ crashed = FALSE
    /\ visible = FALSE
    /\ activations = 0
    /\ NoSearch
    /\ NoBuild
    /\ launch_failed = FALSE
    /\ kind = "none"
    /\ cfg = [dyn_icon |-> FALSE]
    /\ state = WidgetState
    /\ mapped = FALSE
    /\ icon_name = DEFAULT_ICON
    /\ active = FALSE
    /\ label = LABEL_PLACEHOLDER
    /\ pool = ExecutorManager
    /\ tasks = {}
    /\ nsub = 0
    /\ idle = <<>>
    /\ timers = {}
    /\ next_source = 0
    /\ last_sources = <<0, 0, 0, 0>>
    /\ discarded = FALSE
    /\ last_applied = [k \in FetchKinds |-> 0]
    /\ setting = "absent"
    /\ toggle_cmds = 0
    /\ polled_flip = FALSE
    /\ ui_blocked = FALSE
    /\ slider = [value |-> 0, changing |-> FALSE, last_snapped |-> <<>>,
                 pending |-> <<>>, lock |-> FALSE]
    /\ events = 0
    /\ last_raw = <<>>
    /\ burst_execs = 0
    /\ last_exec = <<>>
    /\ last_cmd = None
    /\ state_lock = FALSE
    /\ call_in_lock = FALSE

NextApp ==
    \/ Activate
    \/ EditDisk
    \/ SelectRow
    \/ ReloadStart
    \/ ReloadLoad
    \/ ReloadComplete

SpecApp == InitApp /\ [][NextApp]_vars

\* The process started beside a config of one page, with threads that keep
\* running: while a reload-worker has its load to finish or the main loop
\* has a reload callback queued, one of them takes its step.
InitReload ==
    /\ InitApp
    /\ disk = [doc |-> DocDict(PagesList(<<GoodPage("P")>>)), css |-> "css-a"]

SpecReload ==
    /\ InitReload
    /\ [][NextApp]_vars
    /\ WF_reloads(ReloadLoad \/ ReloadComplete)

\* ------------------------------------------------------- the daemon window
MaxActivations == 3  \* do_activate calls per run

\* do_activate that takes the cold-start path whether or not a window exists.
PresentRebuilds ==
    /\ window
    /\ activations < MaxActivations
    /\ LET r == LoadConfigAndCss(disk) IN
       IF r.tag = "raise"
       THEN /\ crashed' = TRUE
            /\ UNCHANGED <<config, css_content, config_error, view,
                           pages_built, selected, visible>>
       ELSE LET ui == ShowContent(r.pages, r.error, -1) IN
            /\ config' = r.pages
            /\ css_content' = r.css
            /\ config_error' = r.error
            /\ view' = ui.view
            /\ pages_built' = ui.pages_built
            /\ selected' = ui.selected
            /\ crashed' = (crashed \/ ui.tag = "raise")
            /\ visible' = (ui.tag # "raise")
    /\ activations' = activations + 1
    /\ UNCHANGED <<window, disk, toasts, reloads, nreloads, completed>>
    /\ UnchangedByApp

\* do_activate while the window exists (a second launch of the program):
\* present it and return.
Present ==
    /\ window
    /\ activations < MaxActivations
    /\ visible' = TRUE
    /\ activations' = activations + 1
    /\ UNCHANGED <<config, disk, css_content, config_error, window, view,
                   pages_built, selected, toasts, reloads, nreloads, completed,
                   crashed>>
    /\ UnchangedByApp

\* _on_close_request (the window manager's close button, or Ctrl+Q through
\* window.close()): hide the window and return True, which stops the default
\* handler that would destroy it.
CloseRequest ==
    /\ window
    /\ visible
    /\ visible' = FALSE
    /\ UNCHANGED <<config, disk, css_content, config_error, window, view,
                   pages_built, selected, toasts, reloads, nreloads, completed,
                   crashed, activations>>
    /\ UnchangedByApp

\* Another program rewrites the config file and the stylesheet while the
\* window is hidden.
EditWhileHidden ==
    /\ window
    /\ ~visible
    /\ \E d \in EditedDisks : d # disk /\ disk' = d
    /\ UNCHANGED <<config, css_content, config_error, window, view, pages_built,
                   selected, toasts, reloads, nreloads, completed, crashed>>
    /\ UNCHANGED <<visible, activations>>
    /\ UnchangedByApp

\* The process started beside three pages, beside a page that cannot be
\* built, or beside a config without pages.
InitDaemon ==
    /\ InitApp
    /\ disk \in {[doc |-> DocDict(PagesList(<<GoodPage("P"), GoodPage("Q"), GoodPage("R")>>)),
                  css |-> "css-b"],
                 [doc |-> DocDict(PagesList(<<GoodPage("P"), NullCardPage>>)),
                  css |-> "css-a"],
                 [doc |-> DocDict(PagesAbsent), css |-> "css-a"]}

\* The window's life without hot reloads.
NextDaemon ==
    \/ Activate
    \/ SelectRow
    \/ CloseRequest
    \/ EditWhileHidden
    \/ Present

SpecDaemon == InitDaemon /\ [][NextDaemon]_vars

\* ------------------------------------------------------------ properties
NoSources(s) ==
    /\ s.icon_source_id = 0
    /\ s.monitor_source_id = 0
    /\ s.update_source_id = 0
    /\ s.debounce_source_id = 0

Flags == {"is_icon_updating", "is_monitoring", "is_value_updating"}

\* C1: once cleanup has marked the widget destroyed, no step changes its
\* visible state (icon name, switch / card state, label text), whatever
\* results reach the UI thread afterwards.
C1_NoUpdateAfterDestroy ==
    [][state.is_destroyed =>
          (icon_name' = icon_name /\ active' = active /\ label' = label)]_vars

\* A result was dispatched on the UI thread after the cleanup.
C1_Witness == state.is_destroyed /\ discarded

\* C2: per fetch kind at most one fetch is submitted and not yet returned,
\* the first fetch of the icon loop included.
C2_AtMostOneOutstanding ==
    \A k \in FetchKinds : Cardinality(Outstanding(k)) <= 1

\* C3: per fetch kind, results are applied in the order of their submission:
\* the id of the fetch applied last never decreases.
C3_AppliedInSubmissionOrder ==
    [][\A k \in FetchKinds : last_applied'[k] >= last_applied[k]]_vars

\* C4: a destroyed widget stores no timer id, and from then on no step stores
\* one or raises an in-flight flag.
C4_DestroyedQuiescent ==
    /\ [](state.is_destroyed => NoSources(state))
    /\ [][state.is_destroyed =>
             /\ NoSources(state')
             /\ \A f \in Flags : state'[f] => state[f]]_vars

\* Cleanup drained armed timers while a fetch was still outstanding.
C4_Witness ==
    /\ state.is_destroyed
    /\ last_sources # <<0, 0, 0, 0>>
    /\ tasks # {}

\* C5: every cleanup call leaves the widget destroyed with no stored handle,
\* returns exactly the handles stored before it, which cover every attached
\* timer; on a destroyed widget it returns zeros and changes nothing.
C5_DrainAtomicIdempotent ==
    [][DoUnroot =>
          /\ state'.is_destroyed /\ NoSources(state')
          /\ last_sources' = <<state.icon_source_id, state.monitor_source_id,
                               state.update_source_id, state.debounce_source_id>>
          /\ {t.id : t \in timers} \subseteq Range(last_sources')
          /\ state.is_destroyed =>
                (last_sources' = <<0, 0, 0, 0>> /\ state' = state)]_vars

\* A second cleanup of a row whose first cleanup returned its icon timer.
C5_Witness ==
    /\ kind = "ButtonRow" /\ cfg.dyn_icon
    /\ state.is_destroyed
    /\ last_sources = <<0, 0, 0, 0>>

\* C6: is_destroyed starts false and never goes back to false.
C6_DestroyedMonotonic ==
    /\ ~state.is_destroyed
    /\ [][state.is_destroyed => state'.is_destroyed]_vars

\* A destroyed label row after a repeated cleanup and a late result.
C6_Witness ==
    /\ kind = "LabelRow"
    /\ state.is_destroyed
    /\ last_sources = <<0, 0, 0, 0>>
    /\ discarded

\* C7: dispatching a polled result never runs a toggle command and never
\* writes the settings file.
C7_PollingHasNoSideEffect ==
    [][ApplyIdle => (toggle_cmds' = toggle_cmds /\ setting' = setting)]_vars

\* A monitor result switched a ToggleRow with a key on.
C7_Witness ==
    /\ kind = "ToggleRow" /\ cfg.key
    /\ polled_flip /\ active

\* C8: with debouncing, once no debounce timer is pending after a burst of
\* events on a live slider, exactly one command has run since the burst
\* began, with the quantized value of the last event; while the timer is
\* pending none has run.
C8_BurstRunsOnce ==
    (kind = "SliderRow" /\ cfg.debounce /\ ~state.is_destroyed /\ last_raw # <<>>) =>
        IF DebounceArmed THEN burst_execs = 0
        ELSE /\ burst_execs = 1
             /\ last_exec # <<>>
             /\ last_exec[1] * Scale = Quantize(last_raw[1], cfg)

\* C9: the value-changed handler always runs to completion: the UI thread
\* never waits for the slider lock.
C9_HandlerCompletes == ~ui_blocked /\ ~slider.lock /\ ~slider.changing

\* C10: while the manager is shut down, no submission is accepted.
C10_RejectedAfterShutdown ==
    [][pool.is_shutdown => nsub' = nsub]_vars

\* The tick of fetch kind k ran on a live, mapped widget whose flag was clear,
\* and its submission was refused: nothing was handed to the pool.
TickRejected(k) ==
    /\ CASE k = "icon" -> IconTick
         [] k = "monitor" -> MonitorTick
         [] k = "value" -> ValueTick
    /\ mapped /\ ~state.is_destroyed /\ ~state[FlagOf(k)]
    /\ nsub' = nsub

\* C11: after a refused submission the in-flight flag of that kind is false
\* when the tick or trigger returns, icon, switch state and label are as
\* before, and the recurring timers are still attached; the same for the
\* value trigger a LabelRow runs when it is built.
C11_RejectedSubmissionDegrades ==
    [][/\ \A k \in FetchKinds :
             TickRejected(k) =>
                /\ ~state'[FlagOf(k)]
                /\ icon_name' = icon_name /\ active' = active /\ label' = label
                /\ timers' = timers
       /\ (Construct /\ kind' = "LabelRow" /\ {t \in tasks' : t.kind = "value"} = {}) =>
                /\ ~state'.is_value_updating
                /\ label' = label
                /\ \E t \in timers' : t.cb = "update"]_vars

\* A mapped ToggleRow without a dynamic icon whose only submissions were
\* refused: get() has built the executor, nothing was accepted, the monitor
\* timer is attached and is_monitoring is clear.
C11_Witness ==
    /\ kind = "ToggleRow" /\ ~cfg.dyn_icon /\ mapped
    /\ pool.executor = 1 /\ nsub = 0
    /\ ~state.is_monitoring
    /\ \E t \in timers : t.cb = "monitor"

\* C12: a worker that ends a fetch leaves the in-flight flag of the fetch's
\* kind false, whether the command ran or the widget was found destroyed;
\* and with a pool that runs every accepted task, a flag that is true
\* becomes false again.
C12_FlagAlwaysCleared ==
    /\ [][TaskFinish =>
             \A t \in tasks :
                (t.phase \in {"running", "aborting"} /\ t \notin tasks') =>
                    ~state'[FlagOf(t.kind)]]_vars
    /\ \A k \in FetchKinds : state[FlagOf(k)] ~> ~state[FlagOf(k)]

\* A state check submitted by a tick has run to the end of its finally block
\* and is_monitoring is clear again.
C12_Witness ==
    /\ kind = "ToggleRow" /\ ~cfg.dyn_icon
    /\ ~state.is_monitoring
    /\ \E t \in tasks : t.kind = "monitor" /\ t.phase = "cleared"

\* C13: cleanup detaches every timer of the widget, so a destroyed widget
\* has no timer attached and no tick or debounce timeout runs for it;
\* cleanup leaves the pool's work items alone, and a task a worker is running
\* only leaves through the end of the worker function.
C13_CleanupRemovesTimers ==
    /\ [](state.is_destroyed => timers = {})
    /\ [][DoUnroot => (timers' = {} /\ tasks' = tasks)]_vars
    /\ [][state.is_destroyed =>
             ~(IconTick \/ MonitorTick \/ ValueTick \/ DebounceFire)]_vars
    /\ [][\A t \in tasks :
             (t.phase \in {"running", "aborting"} /\ t \notin tasks') =>
                 TaskFinish]_vars

\* Cleanup found a timer attached while a worker was running a fetch.
C13_Witness ==
    /\ state.is_destroyed
    /\ \E i \in 1..4 : last_sources[i] # 0
    /\ \E t \in tasks : t.phase = "running"

\* C14: no submission and no command is begun by a thread that holds the
\* widget's state lock, and whenever a work item is waiting or a worker is
\* running a command, the state lock is free.
C14_NoLockAcrossBlockingCall ==
    /\ ~call_in_lock
    /\ (\E t \in tasks : t.phase \in {"queued", "running"}) => ~state_lock

\* A tick has submitted a state check while a worker runs the icon command.
C14_Witness ==
    /\ \E t \in tasks : t.kind = "icon" /\ t.phase = "running"
    /\ \E t \in tasks : t.kind = "monitor" /\ t.phase = "queued"

\* C15: quantizing a quantized value gives the same value, for every step,
\* every min <= max and every value of [min, max]; the quantized value lies
\* in [min, max].
C15_QuantizeIdempotent ==
    /\ events >= 1 => (cfg.min <= slider.value /\ slider.value <= cfg.max)
    /\ events = 2 => slider.value = slider.last_snapped[1]

\* Twice quantized: a value off the grid that was moved, with a min that is
\* no multiple of the step.
C15_Witness ==
    /\ events = 2
    /\ last_raw[1] # slider.value
    /\ cfg.min % cfg.step # 0

\* C16: what save_setting writes for a boolean b, with as_int or without,
\* load_setting with a boolean default reads back as b, and as not b when
\* is_inversed is set.  The save is the one a user toggle of a row with a key
\* performs, of b = new state XOR key_inverse.
C16_SettingsRoundTrip ==
    [][(UserToggle /\ cfg.key) =>
          LET b == (active' # cfg.key_inverse) IN
          /\ setting' = SaveSetting(b, cfg.save_as_int)
          /\ LoadSetting(setting', FALSE) = b
          /\ LoadSetting(setting', TRUE) = ~b]_vars

\* A user toggle has saved False with as_int off: the file holds str(False).
C16_Witness ==
    /\ kind \in ToggleKinds /\ cfg.key /\ ~cfg.save_as_int
    /\ toggle_cmds = 1
    /\ setting = "False"

RECURSIVE FlatLayout(_, _)
RECURSIVE FlatItems(_, _)
FlatLayout(layout, crumb) ==
    IF layout = <<>> THEN <<>>
    ELSE FlatItems(Head(layout), crumb) \o FlatLayout(Tail(layout), crumb)

FlatItems(items, crumb) ==
    IF items = <<>> THEN <<>>
    ELSE IF Len(items) = 1
    THEN <<[item |-> items[1], crumb |-> crumb]>>
         \o FlatLayout(items[1].layout, crumb \o CrumbSep \o items[1].title.s)
    ELSE FlatItems(SubSeq(items, 1, Len(items) \div 2), crumb)
         \o FlatItems(SubSeq(items, Len(items) \div 2 + 1, Len(items)), crumb)

RECURSIVE FlatPages(_)
FlatPages(pages) ==
    IF pages = <<>> THEN <<>>
    ELSE FlatLayout(Head(pages).layout, Head(pages).title) \o FlatPages(Tail(pages))

\* The property has a text and the text holds the query, whatever the case.
HasText(v, query) == v.tag = "str" /\ Contains(LowerText(query), LowerText(v.s))

IsMatch(e, query) ==
    /\ e.item.type # NAVIGATION
    /\ (HasText(e.item.title, query) \/ HasText(e.item.description, query))

StartsWith(t, prefix) ==
    Len(t) >= Len(prefix) /\ SubSeq(t, 1, Len(prefix)) = prefix

\* The item rows of the results group, in order.
ItemRows == SelectSeq(results, LAMBDA r : r.row = "item")

\* C18: after a search the item rows are exactly the non-navigation items
\* whose title or description holds the query, case ignored, from every
\* nesting depth and in depth-first order (up to the cap of rows); a
\* navigation item is no row but the items below it are; every row's
\* description starts with the breadcrumb of the item's place.
C18_SearchYieldsMatches ==
    last_query # <<>> =>
        LET expected == SelectSeq(FlatPages(config),
                                  LAMBDA e : IsMatch(e, last_query[1]))
            shown == IF Len(expected) < SEARCH_MAX_RESULTS
                     THEN Len(expected) ELSE SEARCH_MAX_RESULTS
        IN  /\ Len(ItemRows) = shown
            /\ \A i \in 1 .. shown :
                  /\ ItemRows[i].item.type = expected[i].item.type
                  /\ ItemRows[i].item.title = expected[i].item.title
                  /\ ItemRows[i].item.layout = expected[i].item.layout
                  /\ ItemRows[i].item.description.tag = "str"
                  /\ StartsWith(ItemRows[i].item.description.s, expected[i].crumb)

RowsOf(what) == SelectSeq(results, LAMBDA r : r.row = what)

\* C19: with n the number of matches the search finds in the whole config,
\* the results group holds exactly min(n, SEARCH_MAX_RESULTS) item rows; it
\* holds one 'Showing first 50 results' row if n > SEARCH_MAX_RESULTS and none
\* otherwise; with n over the cap the traversal has looked at no item past the
\* match that follows the last row shown; with n = 0 the group holds the
\* single row 'No results found', and no such row otherwise.
C19_ResultsCapped ==
    last_query # <<>> =>
        LET matches == IterMatchingItems(config, last_query[1], 0).results
            n == Len(matches)
        IN  /\ Len(ItemRows) = IF n < SEARCH_MAX_RESULTS THEN n ELSE SEARCH_MAX_RESULTS
            /\ Len(RowsOf("overflow")) = IF n > SEARCH_MAX_RESULTS THEN 1 ELSE 0
            /\ n > SEARCH_MAX_RESULTS =>
                  /\ looked = matches[SEARCH_MAX_RESULTS + 1].seen
                  /\ results[Len(results)].row = "overflow"
            /\ n <= SEARCH_MAX_RESULTS => looked = Len(FlatPages(config))
            /\ n = 0 => results = <<[row |-> "no_results", item |-> <<>>]>>
            /\ n > 0 => RowsOf("no_results") = <<>>

\* A search over more matches than the cap has run: 50 item rows, the
\* placeholder, and items of the config the traversal never reached.
C19_Witness ==
    /\ last_query # <<>>
    /\ Len(ItemRows) = SEARCH_MAX_RESULTS
    /\ Len(results) = SEARCH_MAX_RESULTS + 1
    /\ results[SEARCH_MAX_RESULTS + 1].row = "overflow"
    /\ looked < Len(FlatPages(config))

\* C20: no step changes the config tree, so the breadcrumb of a result is in
\* the result only; and a search that runs the query of the search before it
\* fills the results group with the same rows.
C20_SearchLeavesConfig ==
    [][/\ config' = config
       /\ (search_timer # {} /\ search_timer' = {} /\ last_query' = last_query)
             => results' = results]_vars

\* Two searches have run, the last one shows a row whose description is the
\* breadcrumb followed by the item's own description, and the item in the
\* config tree still has its own description only.
C20_Witness ==
    /\ searches >= 2
    /\ search_timer = {}
    /\ last_query # <<>>
    /\ \E i \in 1 .. Len(ItemRows) :
          \E k \in 1 .. Len(FlatPages(config)) :
             LET row == ItemRows[i].item
                 e == FlatPages(config)[k]
             IN  /\ e.item.description = Text(<<"o", "n">>)
                 /\ row.title = e.item.title
                 /\ row.description = Text(e.crumb \o DescSep \o <<"o", "n">>)

\* ------------------------------------------------- the builders as functions
MaxItems == 2        \* items in a section, a result list or an expander

\* The rows' part of the state before any user action and any fetch.
NoRows ==
    /\ state = WidgetState
    /\ icon_name = DEFAULT_ICON
    /\ active = FALSE
    /\ label = LABEL_PLACEHOLDER
    /\ pool = ExecutorManager
    /\ tasks = {}
    /\ nsub = 0
    /\ idle = <<>>
    /\ timers = {}
    /\ next_source = 0
    /\ last_sources = <<0, 0, 0, 0>>
    /\ discarded = FALSE
    /\ last_applied = [k \in FetchKinds |-> 0]
    /\ setting = "absent"
    /\ toggle_cmds = 0
    /\ polled_flip = FALSE
    /\ ui_blocked = FALSE
    /\ events = 0
    /\ last_raw = <<>>
    /\ burst_execs = 0
    /\ last_exec = <<>>
    /\ last_cmd = None
    /\ state_lock = FALSE
    /\ call_in_lock = FALSE

\* The items a builder is given: known types and a type no builder knows,
\* with properties that build, that make the constructor raise, and null.
BuildTypes == {"button", "toggle", "label", "bogus"}
BuildProps == {"dict", "bad_icon", "null"}

BuildItems ==
    {BuildItem(t, "t", p, <<>>) : t \in BuildTypes, p \in BuildProps}

ItemLists == UNION {[1 .. n -> BuildItems] : n \in 0 .. MaxItems}

InitBuild ==
    /\ build_input \in ItemLists
    /\ build_output = <<>>
    /\ launch_failed = FALSE
    /\ kind = "none"
    /\ cfg = [dyn_icon |-> FALSE]
    /\ mapped = FALSE
    /\ slider = [value |-> 0, changing |-> FALSE, last_snapped |-> <<>>,
                 pending |-> <<>>, lock |-> FALSE]
    /\ NoApp
    /\ NoSearch
    /\ NoRows

UnchangedByBuild ==
    /\ UNCHANGED <<kind, cfg, state, mapped, icon_name, active, label, pool, tasks,
                   nsub, idle, timers, next_source, last_sources, discarded,
                   last_applied, setting, toggle_cmds, polled_flip, ui_blocked,
                   slider, events, last_raw, burst_execs, last_exec, last_cmd,
                   state_lock, call_in_lock>>
    /\ UNCHANGED searchVars
    /\ UNCHANGED <<appVars, build_input, launch_failed>>

\* _build_standard_section over the items.
BuildSection ==
    /\ build_output = <<>>
    /\ build_output' =
          <<[by |-> "section",
             out |-> BuildStandardSection(Section("section", build_input))]>>
    /\ UnchangedByBuild

\* _build_grid_section over the items.
BuildGrid ==
    /\ build_output = <<>>
    /\ build_output' =
          <<[by |-> "grid",
             out |-> BuildGridSection(Section("grid_section", build_input))]>>
    /\ UnchangedByBuild

\* The loop of _populate_search_results over the items as matches.
BuildSearchResults ==
    /\ build_output = <<>>
    /\ build_output' =
          <<[by |-> "search",
             out |-> Collect([i \in 1 .. Len(build_input) |->
                                 BuildItemRow(build_input[i])])]>>
    /\ UnchangedByBuild

\* ExpanderRow._build_child_rows over the items as the expander's children.
BuildExpander ==
    /\ build_output = <<>>
    /\ build_output' =
          <<[by |-> "expander",
             out |-> [tag |-> "ok", rows |-> BuildChildRows(build_input),
                      msg |-> None]]>>
    /\ UnchangedByBuild

\* The item loop of the earlier generation's page builder.
BuildRework ==
    /\ build_output = <<>>
    /\ build_output' =
          <<[by |-> "rework",
             out |-> Collect([i \in 1 .. Len(build_input) |->
                                 ReworkBuildItemRow(build_input[i])])]>>
    /\ UnchangedByBuild

NextBuild ==
    \/ BuildSection
    \/ BuildGrid
    \/ BuildSearchResults
    \/ BuildExpander
    \/ BuildRework

SpecBuild == InitBuild /\ [][NextBuild]_vars

\* ------------------------------------------------- user actions and toasts
MaxActions == 2      \* commands run by toggle changes per run

\* What happens when a command is handed to subprocess.Popen: the process is
\* started, or Popen raises.
LaunchOutcomes == {"started", "FileNotFoundError", "OSError"}

\* utility.execute_command: True when Popen started the command, False when
\* it raised FileNotFoundError or OSError.
ExecuteCommand(outcome) == outcome = "started"

\* Rows with a command to run: a button and a toggle of either kind with an
\* exec action, and a slider that runs its command without debouncing.
ActionKinds == {"ButtonRow", "ToggleRow", "GridToggleCard", "SliderRow"}

ActionConfigs(k) ==
    IF k = "SliderRow" THEN {c \in SliderConfigs : ~c.debounce} ELSE Configs(k)

\* A row that has just been built and is shown.
InitActions ==
    /\ kind \in ActionKinds
    /\ cfg \in ActionConfigs(kind)
    /\ mapped = TRUE
    /\ slider = [value |-> IF kind = "SliderRow" THEN cfg.min ELSE 0,
                 changing |-> FALSE, last_snapped |-> <<>>,
                 pending |-> <<>>, lock |-> FALSE]
    /\ launch_failed = FALSE
    /\ NoApp
    /\ NoSearch
    /\ NoBuild
    /\ NoRows

UnchangedByAction ==
    /\ UNCHANGED <<kind, cfg, mapped, icon_name, label, pool, tasks, nsub, idle,
                   timers, next_source, last_sources, discarded, last_applied,
                   polled_flip, state_lock, call_in_lock>>
    /\ UNCHANGED <<searchVars, buildVars>>
    /\ UNCHANGED <<disk, css_content, config_error, window, view, pages_built,
                   selected, reloads, nreloads, completed, visible, activations>>

\* ButtonRow._on_button_clicked with an exec action: run the command and
\* toast "Launched: <title>" or "Failed: <title>" by execute_command's result.
ButtonClicked ==
    /\ kind = "ButtonRow"
    /\ \E outcome \in LaunchOutcomes :
          LET success == ExecuteCommand(outcome) IN
          /\ toasts' = <<IF success THEN "Launched" ELSE "Failed">>
          /\ launch_failed' = ~success
    /\ UNCHANGED <<state, active, setting, toggle_cmds, ui_blocked, slider, events,
                   last_raw, burst_execs, last_exec, last_cmd, crashed>>
    /\ UnchangedByAction

\* ToggleRow._on_toggle_changed / GridToggleCard._on_clicked by the user: the
\* action's command is run and execute_command's result is dropped.
ToggleChanged ==
    /\ kind \in ToggleKinds
    /\ toggle_cmds < MaxActions
    /\ \E outcome \in LaunchOutcomes :
          LET e == OnToggleChanged(FALSE, ~active, cfg, setting, toggle_cmds) IN
          /\ active' = ~active
          /\ setting' = e.setting
          /\ toggle_cmds' = e.toggle_cmds
          /\ last_cmd' = e.cmd
          /\ toasts' = <<>>
          /\ launch_failed' = (e.cmd # None /\ ~ExecuteCommand(outcome))
    /\ UNCHANGED <<state, ui_blocked, slider, events, last_raw, burst_execs,
                   last_exec, crashed>>
    /\ UnchangedByAction

\* SliderRow._on_value_changed without debouncing, which commits at once in
\* _execute_debounced_action: with 'terminal' the command goes through
\* execute_command and the result is dropped, without it through
\* subprocess.Popen(shell=True) with no try statement around it.
SliderCommit ==
    /\ kind = "SliderRow"
    /\ ~ui_blocked
    /\ events < MaxEvents
    /\ \E val \in cfg.min .. cfg.max, outcome \in LaunchOutcomes,
          terminal \in BOOLEAN :
          /\ val # slider.value
          /\ LET sec == SnapSection([slider EXCEPT !.value = val], val, cfg)
                 x == ExecuteDebouncedAction(state, sec.slider)
                 ran == sec.proceed /\ x.ran
             IN  /\ events' = events + 1
                 /\ last_raw' = <<val>>
                 /\ ui_blocked' = sec.blocked
                 /\ slider' = IF sec.proceed THEN x.slider ELSE sec.slider
                 /\ state' = IF sec.proceed THEN x.state ELSE state
                 /\ burst_execs' = burst_execs + (IF ran THEN 1 ELSE 0)
                 /\ last_exec' = IF ran THEN <<x.arg>> ELSE last_exec
                 /\ toasts' = <<>>
                 /\ launch_failed' = (ran /\ outcome # "started")
                 /\ crashed' = (crashed \/
                                   (ran /\ ~terminal /\ outcome # "started"))
    /\ UNCHANGED <<active, setting, toggle_cmds, last_cmd>>
    /\ UnchangedByAction

NextActions ==
    \/ ButtonClicked
    \/ ToggleChanged
    \/ SliderCommit

SpecActions == InitActions /\ [][NextActions]_vars

\* ------------------------------------- the executor manager, executor by executor
MaxSubmits == 3      \* submissions to the pool per run
MaxShutdowns == 2    \* calls of shutdown() per run

\* _ExecutorManager with the executors told apart: _executor is 0 for None
\* and n for the n-th ThreadPoolExecutor created; live holds the executors
\* created and not shut down; shutdowns counts the calls of shutdown().
\* pc and got are the place of the thread inside
\* _get_executor().submit(func) and the executor get() returned to it.
Manager ==
    [executor |-> 0, is_shutdown |-> FALSE, created |-> 0, live |-> {},
     shutdowns |-> 0, pc |-> "idle", got |-> 0]

\* get() up to its return statement: the check outside the lock and, when
\* it finds no usable executor, the creation under the lock.
ManagerGet(m) ==
    IF m.executor = 0 \/ m.is_shutdown
    THEN [m EXCEPT !.executor = m.created + 1, !.is_shutdown = FALSE,
                   !.created = m.created + 1,
                   !.live = m.live \cup {m.created + 1}]
    ELSE m

\* shutdown() that gives the executor up without shutting it down.
ManagerShutdownDropsOnly(m) ==
    IF m.executor # 0 /\ ~m.is_shutdown
    THEN [m EXCEPT !.is_shutdown = TRUE, !.executor = 0, !.shutdowns = @ + 1]
    ELSE [m EXCEPT !.shutdowns = @ + 1]

\* shutdown(): on a live executor set the flag, shut the executor down and
\* forget it; nothing otherwise.
ManagerShutdown(m) ==
    IF m.executor # 0 /\ ~m.is_shutdown
    THEN [m EXCEPT !.is_shutdown = TRUE, !.executor = 0,
                   !.live = @ \ {m.executor}, !.shutdowns = @ + 1]
    ELSE [m EXCEPT !.shutdowns = @ + 1]

InitPool ==
    /\ pool = Manager
    /\ tasks = {}
    /\ nsub = 0
    /\ kind = "none"
    /\ cfg = [dyn_icon |-> FALSE]
    /\ mapped = FALSE
    /\ slider = [value |-> 0, changing |-> FALSE, last_snapped |-> <<>>,
                 pending |-> <<>>, lock |-> FALSE]
    /\ state = WidgetState
    /\ icon_name = DEFAULT_ICON
    /\ active = FALSE
    /\ label = LABEL_PLACEHOLDER
    /\ idle = <<>>
    /\ timers = {}
    /\ next_source = 0
    /\ last_sources = <<0, 0, 0, 0>>
    /\ discarded = FALSE
    /\ last_applied = [k \in FetchKinds |-> 0]
    /\ setting = "absent"
    /\ toggle_cmds = 0
    /\ polled_flip = FALSE
    /\ ui_blocked = FALSE
    /\ events = 0
    /\ last_raw = <<>>
    /\ burst_execs = 0
    /\ last_exec = <<>>
    /\ last_cmd = None
    /\ state_lock = FALSE
    /\ call_in_lock = FALSE
    /\ launch_failed = FALSE
    /\ NoApp
    /\ NoSearch
    /\ NoBuild

UnchangedByPool ==
    /\ UNCHANGED <<kind, cfg, state, mapped, icon_name, active, label, idle,
                   timers, next_source, last_sources, discarded, last_applied,
                   setting, toggle_cmds, polled_flip, ui_blocked, slider, events,
                   last_raw, burst_execs, last_exec, last_cmd, state_lock,
                   call_in_lock>>
    /\ UNCHANGED <<searchVars, appVars, buildVars, launch_failed>>

\* _submit_task_safe begins: get() checks for an executor and creates one
\* if there is none.
PoolGet ==
    /\ pool.pc = "idle"
    /\ nsub < MaxSubmits
    /\ pool' = [ManagerGet(pool) EXCEPT !.pc = "checked"]
    /\ nsub' = nsub + 1
    /\ UNCHANGED tasks
    /\ UnchangedByPool

\* return self._executor, read outside the lock.
PoolGetReturn ==
    /\ pool.pc = "checked"
    /\ pool' = [pool EXCEPT !.pc = "returned", !.got = pool.executor]
    /\ UNCHANGED <<tasks, nsub>>
    /\ UnchangedByPool

\* .submit(func) on what get() returned: AttributeError on None and
\* RuntimeError on an executor shut down meanwhile, both caught by
\* _submit_task_safe; otherwise the work item joins the executor's queue.
PoolSubmit ==
    /\ pool.pc = "returned"
    /\ pool' = [pool EXCEPT !.pc = "idle", !.got = 0]
    /\ tasks' = IF pool.got \in pool.live
                THEN tasks \cup {[id |-> nsub, exec |-> pool.got,
                                  phase |-> "queued"]}
                ELSE tasks
    /\ UNCHANGED nsub
    /\ UnchangedByPool

\* A free worker thread of an executor takes the next item of its queue.
PoolTaskStart ==
    /\ \E t \in tasks :
          /\ t.phase = "queued"
          /\ Cardinality({u \in tasks : u.exec = t.exec /\ u.phase = "running"})
                < EXECUTOR_MAX_WORKERS
          /\ tasks' = (tasks \ {t}) \cup {[t EXCEPT !.phase = "running"]}
    /\ UNCHANGED <<pool, nsub>>
    /\ UnchangedByPool

\* A work item returns.
PoolTaskEnd ==
    /\ \E t \in tasks :
          /\ t.phase = "running"
          /\ tasks' = tasks \ {t}
    /\ UNCHANGED <<pool, nsub>>
    /\ UnchangedByPool

\* shutdown(): executor.shutdown(wait=False, cancel_futures=True) empties the
\* queue of the executor and returns while its running items go on.
PoolShutdown ==
    /\ pool.shutdowns < MaxShutdowns
    /\ pool' = ManagerShutdown(pool)
    /\ tasks' = {t \in tasks : ~(t.exec \in pool.live \ pool'.live
                                  /\ t.phase = "queued")}
    /\ UNCHANGED nsub
    /\ UnchangedByPool

NextPool ==
    \/ PoolGet
    \/ PoolGetReturn
    \/ PoolSubmit
    \/ PoolTaskStart
    \/ PoolTaskEnd
    \/ PoolShutdown

SpecPool == InitPool /\ [][NextPool]_vars

\* ------------------------------------------------------------ C21 .. C30
\* The documents the model loads: those on disk at startup and those the
\* files are rewritten to.
LoadedDocs == Docs \cup {d.doc : d \in EditedDisks}

\* C21: validation returns a page list and a message for every document and
\* never an exception; a missing 'pages' key, a 'pages' value that is not a
\* list and a page without 'title' get three different messages; every
\* message comes with the empty page list; and while the application holds a
\* validation error the window shows the error view and no page is built.
C21_ValidationErrors ==
    /\ \A d \in LoadedDocs :
          LET c == DoLoadConfig(d) IN
          /\ DOMAIN c = {"pages", "error"}
          /\ c.error # None => c.pages = <<>>
    /\ LET absent == DoLoadConfig(DocDict(PagesAbsent)).error
           notlist == DoLoadConfig(DocDict(PagesOther)).error
           untitled == DoLoadConfig(DocDict(PagesList(<<GoodPage("P"),
                                                        Page(Absent, <<>>)>>))).error
       IN  /\ None \notin {absent, notlist, untitled}
           /\ absent # notlist
           /\ absent # untitled
           /\ notlist # untitled
    /\ config_error # None =>
          /\ window
          /\ config = <<>>
          /\ view = "error"
          /\ pages_built = <<>>

\* The window is up after a reload that found the file without a 'pages'
\* key: the error view, no pages.
C21_Witness ==
    /\ window
    /\ toasts = <<"Config Error">>
    /\ config_error = "Config missing required 'pages' key"
    /\ view = "error"
    /\ pages_built = <<>>

\* C22: every page of the configuration the application holds after a load
\* that validation accepted (no error message) has a title that is a
\* non-empty text.
C22_AcceptedPagesTitled ==
    (window /\ config_error = None) =>
       \A i \in 1 .. Len(config) :
          /\ config[i].title.tag = "str"
          /\ config[i].title.s # <<>>

\* C25: when on_complete applies a reload result whose configuration has
\* pages and the rebuild goes through, the selected sidebar row is the one at
\* the index captured when that reload was started if the new page list has
\* such an index, and the first one otherwise; the row selected is the row of
\* the new configuration's page at that index.
C25_ReloadRestoresPage ==
    [][\A r \in reloads \ reloads' :
          (/\ r.phase = "posted"
           /\ r.result # <<>>
           /\ r.result[1].error = None
           /\ r.result[1].pages # <<>>
           /\ view' = "pages")
          => LET n == Len(r.result[1].pages)
                 want == IF r.current_page \in 0 .. (n - 1)
                         THEN r.current_page ELSE 0
             IN  /\ config' = r.result[1].pages
                 /\ Len(pages_built') = n
                 /\ selected' = want
                 /\ pages_built'[want + 1].title =
                       StrOf(r.result[1].pages[want + 1].title, Untitled)]_vars

\* A reload has been applied to a window whose third page stayed selected,
\* while a second reload, started with the second page selected, is still
\* loading.
C25_Witness ==
    /\ toasts = <<"Configuration Reloaded">>
    /\ view = "pages"
    /\ Len(pages_built) = 3
    /\ selected = 2
    /\ completed = <<1, 0>>
    /\ \E r \in reloads : r.id = 2 /\ r.current_page = 1 /\ r.phase = "loading"

\* C26: when the rebuild raises while on_complete applies a reload result,
\* the step ends with the configuration and the stylesheet the application
\* held when the step began, and with the failure toast; for every reload,
\* whatever other reloads were started or applied meanwhile.
C26_RollbackToPrevious ==
    [][\A r \in reloads \ reloads' :
          (/\ r.phase = "posted"
           /\ r.result # <<>>
           /\ ShowContent(r.result[1].pages, r.result[1].error,
                          r.current_page).tag = "raise")
          => /\ config' = config
             /\ css_content' = css_content
             /\ toasts' = <<"Reload Failed: UI rebuild error">>]_vars

\* C29: whatever the background load of a reload does (return a result,
\* raise), the worker hands on_complete to the main loop with exactly one of
\* result and error set, an error is answered with a toast and changes
\* nothing else, and on_complete runs once for every reload started: never
\* twice, and from any moment on there comes one at which it has run for
\* every reload started so far.
C29_CallbackOnce ==
    /\ [](\A i \in 1 .. Len(completed) : completed[i] <= 1)
    /\ [](\A r \in reloads :
             r.phase = "posted" => ((r.error # None) # (r.result # <<>>)))
    /\ [][\A r \in reloads \ reloads' :
             r.phase = "posted" =>
                /\ completed'[r.id] = 1
                /\ r.error # None =>
                      /\ toasts' = <<"Reload Failed: Internal error">>
                      /\ UNCHANGED <<config, css_content, config_error, view,
                                     pages_built, selected, crashed>>]_vars
    /\ []<>(\A i \in 1 .. Len(completed) : completed[i] = 1)

\* The first reload found a stylesheet that cannot be decoded and its
\* callback has run with the error; the second is queued with its result.
C29_Witness ==
    /\ completed = <<1, 0>>
    /\ toasts = <<"Reload Failed: Internal error">>
    /\ ~crashed
    /\ \E r \in reloads :
          /\ r.id = 2
          /\ r.phase = "posted"
          /\ r.error = None
          /\ r.result # <<>>

\* The row class the type of an item stands for, a button for a type that is
\* none of the known ones.
C23_Expected(type) ==
    CASE type = "button" -> "ButtonRow"
      [] type = "toggle" -> "ToggleRow"
      [] type = "label" -> "LabelRow"
      [] OTHER -> "ButtonRow"

\* C23: when a list of items whose constructors all go through is built as
\* a standard section, as search results or as the children of an expander,
\* there is a row for every item, in order: a button row for an item of
\* unknown type, the row of its type for every other item.
C23_UnknownIsButton ==
    \A b \in {build_output[i] : i \in 1 .. Len(build_output)} :
       (/\ b.by \in {"section", "search", "expander", "rework"}
        /\ \A i \in 1 .. Len(build_input) : build_input[i].props = "dict")
       => /\ b.out.tag = "ok"
          /\ Len(b.out.rows) = Len(build_input)
          /\ \A i \in 1 .. Len(build_input) :
                b.out.rows[i].widget = C23_Expected(build_input[i].type)

\* C24: when a standard section or a grid section is built from items of
\* which some make their constructor raise, the section is built, with a row
\* or card for every item, in order: for an item whose constructor raises an
\* error row that carries the exception's message, and a row that is no
\* error row for every other item.
C24_ErrorRowPerItem ==
    \A b \in {build_output[i] : i \in 1 .. Len(build_output)} :
       b.by \in {"section", "grid"}
       => /\ b.out.tag = "ok"
          /\ Len(b.out.rows) = Len(build_input)
          /\ \A i \in 1 .. Len(build_input) :
                LET widget == IF b.by = "grid" THEN "GridCard"
                              ELSE C23_Expected(build_input[i].type)
                    exc == CtorRaises(widget, build_input[i].props)
                IN  IF exc = None
                    THEN b.out.rows[i].widget # "ErrorRow"
                    ELSE /\ b.out.rows[i].widget = "ErrorRow"
                         /\ b.out.rows[i].msg = exc

\* C27: after a button press, a toggle change or a slider commit whose
\* command failed to launch, the handler has put a failure toast on the
\* overlay.
C27_FailureToasted ==
    launch_failed => toasts = <<"Failed">>

\* What a fetch whose command timed out or could not be run comes back with:
\* None from the icon and the state fetch, the text "Timeout" from the value
\* fetch.
C28_Failed == {None, LABEL_TIMEOUT}

\* C28: a fetch that failed hands nothing to the UI thread when its worker
\* ends, and no idle callback that carries the result of a failed fetch
\* changes the icon, the switch state or the label text.
C28_FailedFetchNoUpdate ==
    [][/\ \A t \in tasks \ tasks' :
             (t.phase = "cleared" /\ t.res \in C28_Failed)
             => /\ idle' = idle
                /\ UNCHANGED <<icon_name, active, label>>
       /\ (idle # <<>> /\ idle' = Tail(idle) /\ Head(idle).res \in C28_Failed)
             => UNCHANGED <<icon_name, active, label>>]_vars

\* C30: the manager creates no executor before the first submission; never
\* more than one executor is live; a submission finds a live executor or
\* creates one, and when it finds one its work item goes to that executor;
\* shutdown() of a live executor removes every work item still in its queue,
\* leaves the running ones running and leaves no executor live; and
\* shutdown() with no live executor changes nothing.
C30_LazySingletonPool ==
    /\ [](nsub = 0 => (pool.created = 0 /\ pool.executor = 0 /\ pool.live = {}))
    /\ [](Cardinality(pool.live) <= 1)
    /\ [](pool.live = IF pool.executor = 0 THEN {} ELSE {pool.executor})
    /\ [][nsub' # nsub =>
             /\ pool.live # {} => /\ pool'.live = pool.live
                                  /\ pool'.executor = pool.executor
                                  /\ pool'.created = pool.created
             /\ pool.live = {} => /\ pool'.created = pool.created + 1
                                  /\ pool'.live = {pool'.created}]_vars
    /\ [][\A t \in tasks' \ tasks :
             t.phase = "queued" =>
                /\ t.exec = pool.executor
                /\ pool.live = {t.exec}
                /\ pool'.live = pool.live]_vars
    /\ [][(pool'.shutdowns # pool.shutdowns /\ pool.live # {}) =>
             /\ pool'.live = {}
             /\ pool'.executor = 0
             /\ tasks' = {t \in tasks : t.phase = "running" \/ t.exec \notin pool.live}]_vars
    /\ [][(pool'.shutdowns # pool.shutdowns /\ pool.live = {}) =>
             /\ tasks' = tasks
             /\ pool' = [pool EXCEPT !.shutdowns = pool'.shutdowns]]_vars

\* shutdown() has been called twice on the first executor, which had one
\* work item running and one queued: the running one is still there, the
\* queued one is gone, and no executor has been created since.
C30_Witness ==
    /\ pool.shutdowns = 2
    /\ pool.created = 1
    /\ pool.live = {}
    /\ pool.pc = "idle"
    /\ nsub = 2
    /\ tasks = {[id |-> 1, exec |-> 1, phase |-> "running"]}

\* ------------------------------------------------------------ C31 .. C40

\* C31: the window, once built, is never destroyed; a close request hides
\* it and leaves the window, the loaded config and the built UI as they are;
\* and every activation that finds the window shows it and changes neither
\* the window, nor the loaded config, stylesheet and error, nor the view, the
\* built pages and the selection, nor starts a reload.
C31_WindowBuiltOnce ==
    /\ [][window => window']_vars
    /\ [][(visible /\ ~visible') =>
             /\ window'
             /\ UNCHANGED <<config, css_content, config_error, view, pages_built,
                            selected>>]_vars
    /\ [][(window /\ activations' # activations) =>
             /\ activations' = activations + 1
             /\ visible'
             /\ UNCHANGED <<window, config, css_content, config_error, view,
                            pages_built, selected, reloads, nreloads>>]_vars

\* The window was closed and activated again, with the second page selected
\* and while the files on disk differ from what is loaded.
C31_Witness ==
    /\ window
    /\ visible
    /\ activations >= 2
    /\ selected = 1
    /\ LoadConfigAndCss(disk).tag = "ok"
    /\ LoadConfigAndCss(disk).pages # config

\* C32 (amended): a step of the icon tick, the state-monitor tick or the
\* label's value tick taken while the widget is not mapped submits no task,
\* leaves the in-flight flags, the source ids, the icon, the switch and the
\* label unchanged, and leaves every timer armed.
C32_UnmappedTickSkips ==
    [][(~mapped /\ (IconTick \/ MonitorTick \/ ValueTick)) =>
          UNCHANGED <<state, tasks, nsub, pool, timers, idle, icon_name, active,
                      label, state_lock, call_in_lock>>]_vars

\* A widget that was mapped and had a fetch accepted is unmapped while its
\* icon timer is armed and no icon fetch is in flight: a tick would submit
\* were the widget mapped.
C32_Witness ==
    /\ kind # "none"
    /\ ~mapped
    /\ ~state.is_destroyed
    /\ ~state.is_icon_updating
    /\ nsub = 1
    /\ nsub < MaxFetches
    /\ \E t \in timers : t.cb = "icon"
    /\ ~ui_blocked
    /\ pool.executor # 0 /\ ~pool.is_shutdown

\* C32 as stated: while the widget is not mapped no state-monitor command
\* runs.
C32_NoCommandWhileUnmapped ==
    ~mapped => \A t \in tasks : ~(t.kind = "monitor" /\ t.phase = "running")

\* C33: a value-changed event whose quantized value equals the last
\* quantized value leaves the scale at the raw value, leaves the pending
\* value, the last quantized value, the widget state and the timers as they
\* were, executes no command and does not block the UI thread.
C33_RepeatedValueIgnored ==
    [][(/\ events' = events + 1
        /\ slider.last_snapped # <<>>
        /\ Quantize(last_raw'[1], cfg) = slider.last_snapped[1]) =>
          /\ slider' = [slider EXCEPT !.value = last_raw'[1]]
          /\ state' = state
          /\ timers' = timers
          /\ next_source' = next_source
          /\ last_exec' = last_exec
          /\ burst_execs' = (IF DebounceArmed THEN burst_execs ELSE 0)
          /\ ui_blocked' = ui_blocked]_vars

\* The last event moved the scale off the grid to a value that quantizes to
\* the last quantized value: the scale shows the raw value.
C33_Witness ==
    /\ kind = "SliderRow"
    /\ last_raw # <<>>
    /\ slider.last_snapped # <<>>
    /\ Quantize(last_raw[1], cfg) = slider.last_snapped[1]
    /\ last_raw[1] # slider.last_snapped[1]
    /\ slider.value = last_raw[1]
    /\ ~ui_blocked

\* C34: on a live slider without debouncing, every value-changed event that
\* changes the quantized value executes the command once within the handler,
\* with the quantized value, and arms no timer; with debouncing the handler
\* executes nothing, and a firing timer executes with the pending value and
\* clears it.
C34_ImmediateOrDebounced ==
    /\ [][(/\ events' = events + 1
           /\ ~state.is_destroyed
           /\ ~cfg.debounce
           /\ (slider.last_snapped = <<>>
                  \/ Quantize(last_raw'[1], cfg) # slider.last_snapped[1])) =>
             /\ burst_execs' = (IF DebounceArmed THEN burst_execs ELSE 0) + 1
             /\ last_exec' # <<>>
             /\ last_exec'[1] * Scale = Quantize(last_raw'[1], cfg)
             /\ timers' = timers]_vars
    /\ [][(events' = events + 1 /\ cfg.debounce) =>
             /\ burst_execs' = (IF DebounceArmed THEN burst_execs ELSE 0)
             /\ last_exec' = last_exec]_vars
    /\ [][(/\ events' = events
           /\ DebounceArmed
           /\ ~(\E t \in timers' : t.cb = "debounce")
           /\ ~state'.is_destroyed
           /\ slider.pending # <<>>) =>
             /\ burst_execs' = burst_execs + 1
             /\ last_exec'[1] * Scale = slider.pending[1]
             /\ slider'.pending = <<>>]_vars

\* C35: on a ToggleRow whose state is read from its settings file, which
\* only the row itself writes, a state check that began after the user's
\* toggle reads the user's choice; so once the user has toggled, no
\* state-monitor result changes the switch.
C35_StaleResultKeepsChoice ==
    [][(/\ kind = "ToggleRow"
        /\ cfg.key
        /\ ~cfg.state_cmd
        /\ toggle_cmds >= 1
        /\ idle # <<>>
        /\ idle' = Tail(idle)
        /\ Head(idle).kind = "monitor") =>
          active' = active]_vars

\* C36: in every reachable state of a SliderRow, whatever value-changed
\* event, debounce timeout or cleanup comes next, the thread that runs it
\* never holds the state lock and the slider lock at the same time; and
\* between handlers the two locks are never both held.
C36_LocksNeverNested ==
    /\ ~(state_lock /\ slider.lock)
    /\ kind = "SliderRow" =>
          /\ \A val \in cfg.min .. cfg.max :
                ~HoldsBoth(ValueChangedLocks([slider EXCEPT !.value = val], val,
                                             cfg, state))
          /\ ~HoldsBoth(ExecuteDebouncedLocks(state))
          /\ ~HoldsBoth(CleanupLocks)

\* A live slider without debouncing has run its command from the handler:
\* the handler went through the slider lock, the state lock and the slider
\* lock again.
C36_Witness ==
    /\ kind = "SliderRow"
    /\ ~cfg.debounce
    /\ ~state.is_destroyed
    /\ events >= 1
    /\ last_exec # <<>>
    /\ ~ui_blocked
    /\ Len(ValueChangedLocks([slider EXCEPT !.value = cfg.max], cfg.max, cfg, state)) = 6

\* C37: once a SliderRow is destroyed no debounce timer is attached, and no
\* step executes a slider command or arms a timer: a value-changed event
\* leaves the execution count of its burst at zero, every other step leaves
\* it as it is, and the last executed argument never changes.
C37_DestroyedSliderSilent ==
    /\ []((kind = "SliderRow" /\ state.is_destroyed) => ~DebounceArmed)
    /\ [][(kind = "SliderRow" /\ state.is_destroyed) =>
             /\ last_exec' = last_exec
             /\ burst_execs' = (IF events' # events THEN 0 ELSE burst_execs)
             /\ ~(\E t \in timers' : t.cb = "debounce")
             /\ state'.debounce_source_id = 0]_vars

\* A destroyed slider without debouncing holds a pending value: a
\* value-changed event came after the cleanup and its handler went as far as
\* _execute_debounced_action, which returned at the is_destroyed check.
C37_Witness ==
    /\ kind = "SliderRow"
    /\ state.is_destroyed
    /\ ~cfg.debounce
    /\ slider.pending # <<>>
    /\ ~ui_blocked

\* C38: two reloads were started one after the other and the second one's
\* callback has just rebuilt the UI without error; when the first one's
\* callback then completes, also without error, the loaded config, the
\* stylesheet and the built pages stay those of the second reload.
C38_LastStartedReloadWins ==
    [][(/\ nreloads = 2
        /\ toasts \in {<<"Configuration Reloaded">>, <<"Config Error">>}
        /\ reloads' = {}
        /\ \E r \in reloads :
              /\ reloads = {r}
              /\ r.id = 1
              /\ r.phase = "posted"
              /\ r.error = None
              /\ r.result # <<>>
              /\ ShowContent(r.result[1].pages, r.result[1].error,
                             r.current_page).tag = "ok") =>
          /\ config' = config
          /\ css_content' = css_content
          /\ config_error' = config_error
          /\ pages_built' = pages_built]_vars

\* C39: in the rework version a search leaves the loaded config as it is,
\* and a query that is run again right after itself fills the results group
\* with the same rows, descriptions included.
C39_ReworkSearchLeavesConfig ==
    /\ [][config' = config]_vars
    /\ [][(searches' # searches /\ last_query # <<>> /\ last_query' = last_query
             /\ results # <<>> /\ results' # <<>>) =>
             results' = results]_vars

\* C40: the search input is debounced.  At most one search timeout is
\* pending; debounce_source_id is non-zero exactly while one is pending, and
\* is then its id; a text change removes the pending timeout and leaves
\* exactly the one it arms; and when a timeout fires it is the one of the
\* last change, the search runs with that change's text, and no timeout is
\* left to run another search for the same burst.
C40_SearchDebounced ==
    /\ [](Cardinality(search_timer) <= 1)
    /\ []((debounce_source_id # 0) <=> (search_timer # {}))
    /\ [](\A s \in search_timer : s.id = debounce_source_id)
    /\ [][searches' # searches =>
            /\ search_timer \cap search_timer' = {}
            /\ Cardinality(search_timer') = 1]_vars
    /\ [][(searches' = searches /\ search_timer' # search_timer) =>
            /\ search_timer' = {}
            /\ \A s \in search_timer :
                  /\ s.id = searches
                  /\ last_query' =
                        (IF LowerText(Strip(s.query)) = <<>> THEN <<>>
                         ELSE <<LowerText(Strip(s.query))>>)]_vars

\* The second text change of a burst has been handled before any search ran:
\* its timeout is the only one pending and is the remembered one.
C40_Witness ==
    /\ searches >= 2
    /\ debounce_source_id = searches
    /\ \E s \in search_timer : s.id = searches /\ Strip(s.query) # <<>>
    /\ last_query = <<>>
    /\ results = <<>>
    /\ looked = 0

====
